---- MODULE Spec2Model ----
(***************************************************************************)
(* Verification model of the RERF stock forecaster:                        *)
(*   - featureEngineering.ts  (calculateRSI, createFeatureMatrix)          *)
(*   - modelAlgorithms.ts     (lassoRegression,                            *)
(*                             simulateRandomForestOnResiduals)            *)
(*   - PredictionService.generatePredictions (both revisions of the loop)  *)
(*   - stockApi.ts / formatters.ts / useStockData (the bar source)         *)
(*                                                                         *)
(* JavaScript numbers are modelled as fixed-point integers with SCALE      *)
(* units per 1.0.  A JavaScript Date is modelled as an instant counted in  *)
(* hours since the epoch (UTC); a "YYYY-MM-DD" string is modelled as the   *)
(* number of the calendar day since the epoch.                             *)
(***************************************************************************)
EXTENDS Integers, Sequences, FiniteSets, TLC

VARIABLES
    stockData,        \* the bar series handed to the function under study
    forecastDays,     \* requested horizon
    modelParams,      \* ModelParams record
    tz,               \* host time-zone offset in hours (local = UTC + tz)
    rnd,              \* the stream Math.random() reads, used cyclically
    version,          \* which revision of generatePredictions runs
    pc,               \* position of the running call
    features,         \* createFeatureMatrix(stockData)
    residuals,        \* lassoRegression(...).residuals
    lastPrice,        \* close of the last bar
    avgDailyChange,   \* mean close-to-close change of the last 10 bars
    currentPrice,     \* running price accumulator
    predictionCount,  \* predictions emitted so far
    daysAhead,        \* trading-day index of the next prediction
    currentDate,      \* Date object of the loop (hours since epoch, UTC)
    predictions,      \* emitted Prediction records
    rp,               \* number of Math.random() draws consumed so far
    rsiOut,           \* result of a stand-alone calculateRSI call
    ui,               \* useStockData state other than stockData
    calls,            \* query symbols of the handleFetchStockData calls in flight
    now,              \* the clock read by new Date() (hours since epoch, UTC)
    coefficients,     \* lassoRegression(...).coefficients
    lastRun,          \* the previous call (generatePredictions, or lassoRegression
                      \* in its stand-alone runs), if any
    rows64,           \* createFeatureMatrix(stockData) as IEEE-754 doubles
    fit64,            \* the last lassoRegression call in doubles, if any
    lasso             \* the locals of the lassoRegression call in progress, if any

vars == <<stockData, forecastDays, modelParams, tz, rnd, version, pc, features,
          residuals, coefficients, lastPrice, avgDailyChange, currentPrice, predictionCount,
          daysAhead, currentDate, predictions, rp, rsiOut, ui, calls, now, lastRun, rows64, fit64, lasso>>

-----------------------------------------------------------------------------
(* Bounds of the model *)

MaxForecastDays == 5      \* horizons 1..MaxForecastDays
MaxLen == 2               \* series lengths 0..MaxLen in the forecast runs
MaxBars == 16             \* series lengths 0..MaxBars in the feature runs
PatLen == 2               \* period of the close pattern of a generated series
MaxDelta == 1             \* pattern entries are 0..MaxDelta dollars
RawDays == 9              \* calendar days covered by a Yahoo response
MaxCalls == 3             \* fetches in flight at once
MaxRuns == 2              \* generatePredictions calls made by the page in a row
MaxFitLen == 3            \* series lengths 1..MaxFitLen in the Lasso runs
MaxDescentLen == 3        \* longest series of the step-by-step Lasso runs
MaxDescentCents == 3      \* their constant closes: BasePrice .. BasePrice + MaxDescentCents cents
MaxCents == 59            \* constant closes BasePrice .. BasePrice + MaxCents cents
BasePrice == 100          \* first close of a generated series, in dollars
BaseDay == 19723          \* 2024-01-01, a Monday, as a day number

-----------------------------------------------------------------------------
(* Fixed-point arithmetic standing for JavaScript numbers *)

SCALE == 10 * 10 * 10

Abs(x) == IF x < 0 THEN -x ELSE x

\* the same sequence, held as an explicit tuple
Arr(s) == SubSeq(s, 1, Len(s))

RECURSIVE SumSeq(_)
SumSeq(s) == IF s = <<>> THEN 0 ELSE Head(s) + SumSeq(Tail(s))

\* a / b for an integer b # 0, rounded to the nearest unit
RDiv(a, b) ==
    LET n == IF b < 0 THEN -a ELSE a
        d == Abs(b)
        up(m) == (m \div d) + (IF 2 * (m % d) >= d THEN 1 ELSE 0)
    IN  IF n >= 0 THEN up(n) ELSE -up(-n)

\* product of two fixed-point numbers
FMul(a, b) == a * (b \div SCALE) + RDiv(a * (b % SCALE), SCALE)

\* quotient of two fixed-point numbers, b # 0
FDiv(a, b) == RDiv(a * SCALE, b)

RECURSIVE SqrtSearch(_, _, _)
SqrtSearch(v, lo, hi) ==
    IF lo >= hi THEN lo
    ELSE LET mid == (lo + hi + 1) \div 2
         IN  IF mid * mid <= v THEN SqrtSearch(v, mid, hi)
                               ELSE SqrtSearch(v, lo, mid - 1)

\* Math.sqrt of a fixed-point number a >= 0
FSqrt(a) == SqrtSearch(a * SCALE, 0, 46340)

\* mean of the squares of fixed-point numbers, kept at double precision
\* (units of 1 / SCALE^2) so that small variances do not vanish; each square
\* is divided before the sum so that 60 of them stay within the integer range
Variance(devs) ==
    SumSeq(Arr([i \in 1..Len(devs) |-> RDiv(devs[i] * devs[i], Len(devs))]))

\* Math.sqrt of a double-precision variance, as a fixed-point number
SqrtVar(v) == SqrtSearch(v, 0, 46340)

RECURSIVE ExpTerms(_, _, _, _)
ExpTerms(x, term, k, acc) ==
    IF k > 30 \/ term = 0 THEN acc
    ELSE LET t == RDiv(FMul(term, x), k)
         IN  ExpTerms(x, t, k + 1, acc + t)

\* Math.exp of a fixed-point number: power series on [-1/2, 1/2], argument
\* halving outside
RECURSIVE FExp(_)
FExp(x) ==
    IF 2 * Abs(x) <= SCALE THEN ExpTerms(x, SCALE, 1, SCALE)
    ELSE LET h == FExp(RDiv(x, 2)) IN FMul(h, h)


\* Array.prototype.slice(-k)
SliceLastOffByOne(s, k) ==
    IF Len(s) <= k - 1 THEN s ELSE SubSeq(s, Len(s) - k + 2, Len(s))

SliceLast(s, k) ==
    IF Len(s) <= k THEN s ELSE SubSeq(s, Len(s) - k + 1, Len(s))

\* Number(x.toFixed(2)): round to cents, halves away from zero
ToFixed2(x) == RDiv(x, SCALE \div 100) * (SCALE \div 100)

-----------------------------------------------------------------------------
(* Dates *)

\* new Date("YYYY-MM-DD"): midnight UTC of that calendar day
ParseDate(day) == day * 24

\* date.toISOString().split('T')[0]: the UTC calendar day of the instant
ToISODate(t) == t \div 24

\* Date.prototype.getDay(): day of week of the LOCAL calendar day, 0 = Sunday
GetDay(t) == (((t + tz) \div 24) + 4) % 7

\* date.setDate(date.getDate() + 1): next local calendar day, same local time
SetDatePlusOne(t) == (((t + tz) \div 24 + 1) * 24 + ((t + tz) % 24)) - tz

\* day of week of a calendar day (of a "YYYY-MM-DD" string), 0 = Sunday
DayOfWeek(day) == (day + 4) % 7

IsWeekendDay(day) == DayOfWeek(day) = 0 \/ DayOfWeek(day) = 6

\* the first calendar day strictly after `day` that is Monday..Friday
NextWeekday(day) ==
    IF ~IsWeekendDay(day + 1) THEN day + 1
    ELSE IF ~IsWeekendDay(day + 2) THEN day + 2
    ELSE day + 3

-----------------------------------------------------------------------------
(* featureEngineering.ts *)

RSI_PERIOD == 14
WINDOW == 60
VOLUME_NORM == 40000000

Closes(bars) == Arr([i \in 1..Len(bars) |-> bars[i].close])

\* prices.slice(1).map((price, index) => price.close - prices[index].close)
Changes(prices) ==
    Arr([k \in 1..(Len(prices) - 1) |-> prices[k + 1].close - prices[k].close])

Gains(changes) ==
    Arr([k \in 1..Len(changes) |-> IF changes[k] > 0 THEN changes[k] ELSE 0])

Losses(changes) ==
    Arr([k \in 1..Len(changes) |-> IF changes[k] < 0 THEN -changes[k] ELSE 0])

\* variants of RSIValue: the textbook convention RSI = 100 when there is no
\* loss, and a sign slip
RSIValueSaturating(avgGain, avgLoss) ==
    IF avgLoss = 0 THEN 100 * SCALE
    ELSE 100 * SCALE - FDiv(100 * SCALE, SCALE + FDiv(avgGain, avgLoss))
RSIValueSignSlip(avgGain, avgLoss) ==
    LET rs == FDiv(avgGain, IF avgLoss = 0 THEN SCALE ELSE avgLoss)
    IN  100 * SCALE + FDiv(100 * SCALE, SCALE + rs)

\* 100 - (100 / (1 + rs)) with rs = avgGain / (avgLoss || 1)
RSIValue(avgGain, avgLoss) ==
    LET rs == FDiv(avgGain, IF avgLoss = 0 THEN SCALE ELSE avgLoss)
    IN  100 * SCALE - FDiv(100 * SCALE, SCALE + rs)

\* prices.length < 14
TooShortOffByOne(prices) == Len(prices) < RSI_PERIOD - 1
TooShort(prices) == Len(prices) < RSI_PERIOD

calculateRSI(prices) ==
    IF TooShort(prices) THEN 50 * SCALE
    ELSE LET changes == Changes(prices)
             avgGain == RDiv(SumSeq(SliceLast(Gains(changes), RSI_PERIOD)), RSI_PERIOD)
             avgLoss == RDiv(SumSeq(SliceLast(Losses(changes), RSI_PERIOD)), RSI_PERIOD)
         IN  RSIValue(avgGain, avgLoss)

\* arr.slice(Math.max(0, index - period + 1), index + 1) averaged over
\* Math.min(period, index + 1); i is the 1-based position of the row
SMA(arr, i, period) ==
    LET from == IF i - period + 1 > 1 THEN i - period + 1 ELSE 1
        cnt  == IF i < period THEN i ELSE period
    IN  RDiv(SumSeq(Closes(SubSeq(arr, from, i))), cnt)

FeatureRow(arr, i) ==
    LET data       == arr[i]
        sma5       == SMA(arr, i, 5)
        sma20      == SMA(arr, i, 20)
        rsi        == calculateRSI(SubSeq(arr, 1, i))
        volatility == IF i > 1
                      THEN FDiv(Abs(data.close - arr[i - 1].close), arr[i - 1].close)
                      ELSE 0
        priceChange == IF i > 1
                       THEN FDiv(data.close - arr[i - 1].close, arr[i - 1].close)
                       ELSE 0
        volumeRatio == RDiv(data.volume, VOLUME_NORM \div SCALE)
        smaRatio    == FDiv(sma5, sma20)
        volatilitySquared == FMul(volatility, volatility)
        rsiNormalized == RDiv(rsi - 50 * SCALE, 50)
    IN  << SCALE, data.close, sma5, sma20, rsi, volatility, priceChange,
           volumeRatio, smaRatio, volatilitySquared, rsiNormalized,
           FMul(data.close, volatility), RDiv(FMul(sma5, rsi), 100) >>

createFeatureMatrixWholeSeries(bars) ==
    Arr([i \in 1..Len(bars) |-> FeatureRow(bars, i)])

createFeatureMatrix(bars) ==
    LET arr == SliceLast(bars, WINDOW)
    IN  Arr([i \in 1..Len(arr) |-> FeatureRow(arr, i)])

-----------------------------------------------------------------------------
(* JavaScript numbers: IEEE-754 binary64, round to nearest, ties to even.   *)
(* A magnitude is kept in two limbs, hi * LIMB + lo; a positive double is   *)
(* m * 2^e with 2^52 <= m < 2^53; zero has m = 0.                           *)

\* bind a computed value to a name: F is applied to the value of v
With(v, F(_)) == F(v)

RECURSIVE Pow2(_)
Pow2(n) == IF n = 0 THEN 1 ELSE 2 * Pow2(n - 1)

LIMB == Pow2(27)
HI_MIN == Pow2(25)          \* hi limb of 2^52
HI_MAX == Pow2(26)          \* hi limb of 2^53

Wide(hi, lo) == [hi |-> hi + (lo \div LIMB), lo |-> lo % LIMB]

WZero == [hi |-> 0, lo |-> 0]

WAdd(a, b) == Wide(a.hi + b.hi, a.lo + b.lo)

\* a - b for a >= b
WSub(a, b) ==
    IF a.lo >= b.lo THEN [hi |-> a.hi - b.hi, lo |-> a.lo - b.lo]
    ELSE [hi |-> a.hi - b.hi - 1, lo |-> a.lo + LIMB - b.lo]

WGeq(a, b) == a.hi > b.hi \/ (a.hi = b.hi /\ a.lo >= b.lo)

WDouble(a) == Wide(2 * a.hi, 2 * a.lo)

WHalf(a) == [hi |-> a.hi \div 2, lo |-> (a.hi % 2) * (LIMB \div 2) + (a.lo \div 2)]

\* a shifted right by d bits, bit 0 of the result set when a 1 bit was shifted out
RECURSIVE ShiftRight(_, _)
ShiftRight(a, d) ==
    IF d = 0 \/ (a.hi = 0 /\ a.lo <= 1) THEN a
    ELSE LET h == WHalf(a)
         IN  IF a.lo % 2 = 1 /\ h.lo % 2 = 0
             THEN ShiftRight([h EXCEPT !.lo = h.lo + 1], d - 1)
             ELSE ShiftRight(h, d - 1)

\* a double: sign s, and magnitude m * 2^e with 2^52 <= m < 2^53; zero is Zero64
Zero64 == [s |-> 1, m |-> WZero, e |-> 0]

Round64TowardZero(s, w, e, guard, sticky) == [s |-> s, m |-> w, e |-> e]

\* round to nearest, ties to even: the 53-bit w * 2^e, the first dropped bit
\* (guard) and whether a later dropped bit was set (sticky)
Round64(s, w, e, guard, sticky) ==
    LET up == WAdd(w, Wide(0, 1))
    IN  IF ~(guard /\ (sticky \/ w.lo % 2 = 1)) THEN [s |-> s, m |-> w, e |-> e]
        ELSE IF up.hi >= HI_MAX THEN [s |-> s, m |-> WHalf(up), e |-> e + 1]
        ELSE [s |-> s, m |-> up, e |-> e]

\* the double nearest to w * 2^(e - 3), for w # 0 whose bit 0 is sticky
RECURSIVE RoundExtended(_, _, _)
RoundExtended(s, w, e) ==
    IF w.hi >= 8 * HI_MAX THEN RoundExtended(s, ShiftRight(w, 1), e + 1)
    ELSE IF w.hi >= 4 * HI_MAX \/ e = e + 1                     \* e = e + 1 never holds
         THEN Round64(s, WHalf(WHalf(WHalf(w))), e, (w.lo \div 4) % 2 = 1, w.lo % 4 # 0)
    ELSE RoundExtended(s, WDouble(w), e - 1)

\* the double of an integer of magnitude below 2^31
FromInt(n) ==
    IF n = 0 THEN Zero64
    ELSE IF n < 0 THEN RoundExtended(-1, Wide(0, -n), 3)
    ELSE RoundExtended(1, Wide(0, n), 3)

Neg64(a) == IF a = Zero64 THEN a ELSE [a EXCEPT !.s = -a.s]

Abs64(a) == [a EXCEPT !.s = 1]

\* a < b
Lt64(a, b) ==
    IF a = b THEN FALSE
    ELSE IF a = Zero64 THEN b.s = 1
    ELSE IF b = Zero64 \/ a.s # b.s THEN a.s = -1
    ELSE IF a.s = 1 THEN a.e < b.e \/ (a.e = b.e /\ ~WGeq(a.m, b.m))
    ELSE b.e < a.e \/ (b.e = a.e /\ ~WGeq(b.m, a.m))

\* x + y for non-zero x, y with |x| >= |y|
AddAligned(x, y) ==
    LET x8 == Wide(8 * x.m.hi, 8 * x.m.lo)
        y8 == ShiftRight(Wide(8 * y.m.hi, 8 * y.m.lo), x.e - y.e)
    IN  IF x.s = y.s THEN RoundExtended(x.s, WAdd(x8, y8), x.e)
        ELSE IF x8 = y8 THEN Zero64
        ELSE RoundExtended(x.s, WSub(x8, y8), x.e)

\* a + b
Add64(a, b) ==
    IF a = Zero64 THEN b
    ELSE IF b = Zero64 THEN a
    ELSE IF Lt64(Abs64(a), Abs64(b)) THEN AddAligned(b, a)
    ELSE AddAligned(a, b)

Sub64(a, b) == Add64(a, Neg64(b))

\* x * y for limbs x, y < 2^27, split 13 + 14 bits
MulLimbs(x, y) ==
    LET t0 == (x % Pow2(14)) * (y % Pow2(14))
        t1 == (x \div Pow2(14)) * (y % Pow2(14)) + (x % Pow2(14)) * (y \div Pow2(14))
    IN  Wide(2 * (x \div Pow2(14)) * (y \div Pow2(14)) + (t1 \div Pow2(13)) + (t0 \div LIMB),
             (t1 % Pow2(13)) * Pow2(14) + (t0 % LIMB))

\* the double nearest to s * p * 2^(e - 53) for the product p = p2 * 2^54 +
\* p1 * 2^27 + p0 of two 53-bit numbers
RoundProduct(s, e, p0, p1, p2) ==
    LET \* p = r3 * 2^81 + r2 * 2^54 + r1 * 2^27 + p0.lo
        r1 == (p0.hi + p1.lo) % LIMB
        r2 == (((p0.hi + p1.lo) \div LIMB) + p1.hi + p2.lo) % LIMB
        r3 == ((((p0.hi + p1.lo) \div LIMB) + p1.hi + p2.lo) \div LIMB) + p2.hi
    IN  \* the bits of p from 2^50 up, the bits below folded into bit 0
        RoundExtended(s, [hi |-> r3 * 16 + (r2 \div Pow2(23)),
                          lo |-> LET lo == (r2 % Pow2(23)) * 16 + (r1 \div Pow2(23))
                                 IN  IF (p0.lo # 0 \/ r1 % Pow2(23) # 0) /\ lo % 2 = 0
                                     THEN lo + 1 ELSE lo], e)

\* a * b
Mul64(a, b) ==
    IF a = Zero64 \/ b = Zero64 THEN Zero64
    ELSE RoundProduct(a.s * b.s, a.e + b.e + 53, MulLimbs(a.m.lo, b.m.lo),
                      WAdd(MulLimbs(a.m.lo, b.m.hi), MulLimbs(a.m.hi, b.m.lo)),
                      MulLimbs(a.m.hi, b.m.hi))

\* restoring division: `steps` more quotient bits of r / b
RECURSIVE DivBits(_, _, _, _)
DivBits(r, b, q, steps) ==
    IF steps = 0 \/ q.hi < 0 THEN [q |-> q, r |-> r]      \* q.hi < 0 never holds
    ELSE IF WGeq(r, b)
         THEN DivBits(WDouble(WSub(r, b)), b, Wide(2 * q.hi, 2 * q.lo + 1), steps - 1)
         ELSE DivBits(WDouble(r), b, Wide(2 * q.hi, 2 * q.lo), steps - 1)

\* a / b for b # 0
Div64(a, b) ==
    IF a = Zero64 THEN Zero64
    ELSE LET d == DivBits(a.m, b.m, WZero, 56)
         IN  RoundExtended(a.s * b.s,
                           IF d.r # WZero /\ d.q.lo % 2 = 0
                           THEN [d.q EXCEPT !.lo = d.q.lo + 1] ELSE d.q,
                           a.e - b.e - 52)

\* `steps` more bits of the square root: r the remainder so far, w the bits
\* of the radicand not yet used
RECURSIVE SqrtBits(_, _, _, _)
SqrtBits(root, r, w, steps) ==
    IF steps = 0 \/ root.hi < 0 THEN [root |-> root, r |-> r]   \* root.hi < 0 never holds
    ELSE LET r4 == Wide(4 * r.hi, 4 * r.lo + (w.hi \div HI_MIN))
             rest == Wide(4 * (w.hi % HI_MIN), 4 * w.lo)
             t == Wide(4 * root.hi, 4 * root.lo + 1)
         IN  IF WGeq(r4, t)
             THEN SqrtBits(Wide(2 * root.hi, 2 * root.lo + 1), WSub(r4, t), rest, steps - 1)
             ELSE SqrtBits(Wide(2 * root.hi, 2 * root.lo), r4, rest, steps - 1)

\* Math.sqrt(a) for a >= 0
Sqrt64(a) ==
    IF a = Zero64 THEN Zero64
    ELSE LET d == SqrtBits(WZero, WZero, IF a.e % 2 = 0 THEN a.m ELSE WDouble(a.m), 55)
         IN  RoundExtended(1, IF d.r # WZero /\ d.root.lo % 2 = 0
                              THEN [d.root EXCEPT !.lo = d.root.lo + 1] ELSE d.root,
                           ((IF a.e % 2 = 0 THEN a.e ELSE a.e - 1) \div 2) - 25)

One64 == FromInt(1)

\* the double nearest to n / d: how a decimal literal or a JSON number is read
Dec64(n, d) == Div64(FromInt(n), FromInt(d))

\* the next double above a > 0
NextUp64(a) == Round64(a.s, WAdd(a.m, Wide(0, 1)), a.e, FALSE, FALSE)

\* the closes of the bars as the doubles the code holds
Closes64(bars) == Arr([i \in 1..Len(bars) |-> Dec64(bars[i].close, SCALE)])

\* reduce((sum, v) => sum + v, acc) over the entries from..to
RECURSIVE Sum64(_, _, _, _)
Sum64(values, from, to, acc) ==
    IF from > to \/ acc.m.hi < 0 THEN acc                 \* acc.m.hi < 0 never holds
    ELSE Sum64(values, from + 1, to, Add64(acc, values[from]))

SMA64(closes, i, period) ==
    Div64(Sum64(closes, IF i - period + 1 > 1 THEN i - period + 1 ELSE 1, i, Zero64),
          FromInt(IF i < period THEN i ELSE period))

\* change > 0 ? change : 0 for the change from closes[i] to closes[i + 1] taken
\* with the sign `side` (1: the gains, -1: the losses, where -change > 0 is
\* change < 0), over the RSI_PERIOD latest changes
Gains64(closes, side) ==
    [i \in (IF Len(closes) - 1 > RSI_PERIOD THEN Len(closes) - RSI_PERIOD ELSE 1)
           ..(Len(closes) - 1) |->
        With(IF side = 1 THEN Sub64(closes[i + 1], closes[i])
             ELSE Neg64(Sub64(closes[i + 1], closes[i])),
             LAMBDA change : IF Lt64(Zero64, change) THEN change ELSE Zero64)]

\* slice(-period).reduce((sum, v) => sum + v, 0) / period
AverageLast64(values, period) ==
    Div64(Sum64(values, CHOOSE i \in DOMAIN values : i - 1 \notin DOMAIN values,
                CHOOSE i \in DOMAIN values : i + 1 \notin DOMAIN values, Zero64),
          FromInt(period))

\* calculateRSI on bars with these closes, in doubles
calculateRSI64(closes) ==
    IF Len(closes) < RSI_PERIOD THEN FromInt(50)
    ELSE With(AverageLast64(Gains64(closes, -1), RSI_PERIOD),
              LAMBDA avgLoss :
                  Sub64(FromInt(100),
                        Div64(FromInt(100),
                              Add64(One64,
                                    Div64(AverageLast64(Gains64(closes, 1), RSI_PERIOD),
                                          IF avgLoss = Zero64 THEN One64 ELSE avgLoss)))))

\* row i of createFeatureMatrix over the bars arr with the closes `closes`
FeatureRow64(arr, closes, i) ==
    With([ sma5  |-> SMA64(closes, i, 5),
           sma20 |-> SMA64(closes, i, 20),
           rsi   |-> calculateRSI64(SubSeq(closes, 1, i)),
           volatility  |-> IF i > 1
                           THEN Div64(Abs64(Sub64(closes[i], closes[i - 1])), closes[i - 1])
                           ELSE Zero64,
           priceChange |-> IF i > 1
                           THEN Div64(Sub64(closes[i], closes[i - 1]), closes[i - 1])
                           ELSE Zero64 ],
         LAMBDA f :
             << One64, closes[i], f.sma5, f.sma20, f.rsi, f.volatility, f.priceChange,
                Div64(FromInt(arr[i].volume), FromInt(VOLUME_NORM)),
                Div64(f.sma5, f.sma20), Mul64(f.volatility, f.volatility),
                Div64(Sub64(f.rsi, FromInt(50)), FromInt(50)),
                Mul64(closes[i], f.volatility),
                Div64(Mul64(f.sma5, f.rsi), FromInt(100)) >>)

\* createFeatureMatrix with every column as the double the code computes
createFeatureMatrix64(bars) ==
    With(Closes64(SliceLast(bars, WINDOW)),
         LAMBDA closes :
             Arr([i \in 1..Len(closes) |->
                     FeatureRow64(SliceLast(bars, WINDOW), closes, i)]))

-----------------------------------------------------------------------------
(* modelAlgorithms.ts *)

MAX_ITER == 100
TOLERANCE_INV == 10000      \* tolerance = 1e-4 = 1 / TOLERANCE_INV

Column(X, j) == Arr([i \in 1..Len(X) |-> X[i][j]])

\* means[j]; columns are numbered from 1, column 1 is the intercept
ColMean(X, j) == IF j = 1 THEN 0 ELSE RDiv(SumSeq(Column(X, j)), Len(X))

\* stds[j] = Math.sqrt(variance) || 1
ColStd(X, j) ==
    IF j = 1 THEN SCALE
    ELSE LET m == ColMean(X, j)
             variance == Variance(Arr([i \in 1..Len(X) |-> X[i][j] - m]))
             sd == SqrtVar(variance)
         IN  IF sd = 0 THEN SCALE ELSE sd

Standardize(X) ==
    LET p == Len(X[1])
        means == Arr([j \in 1..p |-> ColMean(X, j)])
        stds  == Arr([j \in 1..p |-> ColStd(X, j)])
    IN  Arr([i \in 1..Len(X) |->
            Arr([j \in 1..p |-> IF j = 1 THEN X[i][j]
                                ELSE FDiv(X[i][j] - means[j], stds[j])])])

\* sum over k # j of XStd[i][k] * beta[k]   (j = 0: over all k)
RECURSIVE DotExcept(_, _, _, _)
DotExcept(row, beta, j, k) ==
    IF k > Len(row) THEN 0
    ELSE (IF k = j THEN 0 ELSE FMul(row[k], beta[k]))
         + DotExcept(row, beta, j, k + 1)

Correlation(XStd, y, beta, j) ==
    LET n == Len(XStd)
        partialResidual == Arr([i \in 1..n |-> y[i] - DotExcept(XStd[i], beta, j, 1)])
    IN  RDiv(SumSeq(Arr([i \in 1..n |-> FMul(partialResidual[i], XStd[i][j])])), n)

\* soft thresholding of one coefficient
SoftThreshold(correlation, threshold) ==
    IF correlation > threshold THEN correlation - threshold
    ELSE IF correlation < -threshold THEN correlation + threshold
    ELSE 0

\* the body of "for (let j = 0; j < p; j++)" for column j (1 = intercept)
CoordinateUpdate(XStd, y, beta, j, lambda) ==
    LET correlation == Correlation(XStd, y, beta, j)
        threshold   == RDiv(lambda, Len(XStd))
    IN  [beta EXCEPT ![j] = IF j = 1 THEN correlation
                            ELSE SoftThreshold(correlation, threshold)]

RECURSIVE Sweep(_, _, _, _, _)
Sweep(XStd, y, beta, j, lambda) ==
    IF j > Len(beta) THEN beta
    ELSE Sweep(XStd, y, CoordinateUpdate(XStd, y, beta, j, lambda), j + 1, lambda)

CoefChange(beta, oldBeta) ==
    SumSeq(Arr([j \in 1..Len(beta) |-> Abs(beta[j] - oldBeta[j])]))

\* change < tolerance
Converged(change) == change < SCALE /\ change * TOLERANCE_INV < SCALE

RECURSIVE Descend(_, _, _, _, _)
Descend(XStd, y, beta, iter, lambda) ==
    IF iter >= MAX_ITER THEN beta
    ELSE LET newBeta == Sweep(XStd, y, beta, 1, lambda)
         IN  IF Converged(CoefChange(newBeta, beta)) THEN newBeta
             ELSE Descend(XStd, y, newBeta, iter + 1, lambda)

Residuals(XStd, y, beta) ==
    Arr([i \in 1..Len(y) |-> y[i] - DotExcept(XStd[i], beta, 0, 1)])

lassoRegression(X, y, lambda) ==
    LET XStd == Standardize(X)
        beta == Descend(XStd, y, Arr([j \in 1..Len(X[1]) |-> 0]), 0, lambda)
    IN  [coefficients |-> beta, residuals |-> Residuals(XStd, y, beta)]

\* lassoRegression in the double arithmetic of the code. Math.pow(d, 2) is
\* d * d: the engine's pow returns x * x for the exponent 2.

\* column j of XStd from column j of X, its mean and its std
StandardizeColumn64(col, mean) ==
    With(Sqrt64(Div64(Sum64(Arr([i \in 1..Len(col) |->
                                    Mul64(Sub64(col[i], mean), Sub64(col[i], mean))]),
                            1, Len(col), Zero64),
                      FromInt(Len(col)))),
         LAMBDA sd :
             Arr([i \in 1..Len(col) |->
                     Div64(Sub64(col[i], mean), IF sd = Zero64 THEN One64 ELSE sd)]))

Standardize64(X) ==
    With(Arr([j \in 1..Len(X[1]) |->
                 IF j = 1 THEN Column(X, 1)
                 ELSE StandardizeColumn64(Column(X, j),
                                          Div64(Sum64(Column(X, j), 1, Len(X), Zero64),
                                                FromInt(Len(X))))]),
         LAMBDA cols : Arr([i \in 1..Len(X) |-> Arr([j \in 1..Len(X[1]) |-> cols[j][i]])]))

\* sum += XStd[i][k] * beta[k] over k # j, from column k on   (j = 0: over all k)
RECURSIVE DotExcept64(_, _, _, _, _)
DotExcept64(row, beta, j, k, sum) ==
    IF k > Len(row) \/ sum.m.hi < 0 THEN sum              \* sum.m.hi < 0 never holds
    ELSE IF k = j THEN DotExcept64(row, beta, j, k + 1, sum)
    ELSE DotExcept64(row, beta, j, k + 1, Add64(sum, Mul64(row[k], beta[k])))

\* the mean over the rows of partialResidual[i] * XStd[i][j]
Correlation64(XStd, y, beta, j) ==
    Div64(Sum64(Arr([i \in 1..Len(XStd) |->
                       Mul64(Sub64(y[i], DotExcept64(XStd[i], beta, j, 1, Zero64)),
                             XStd[i][j])]),
                1, Len(XStd), Zero64),
          FromInt(Len(XStd)))

SoftThresholdUpperOnly(correlation, threshold) ==
    IF Lt64(threshold, correlation) THEN Sub64(correlation, threshold)
    ELSE Zero64

SoftThreshold64(correlation, threshold) ==
    IF Lt64(threshold, correlation) THEN Sub64(correlation, threshold)
    ELSE IF Lt64(correlation, Neg64(threshold)) THEN Add64(correlation, threshold)
    ELSE Zero64

\* the value assigned to beta[j] (column 1 = intercept) over n rows
NewCoefficient64(j, correlation, lambda, n) ==
    IF j = 1 THEN correlation
    ELSE SoftThreshold64(correlation, Div64(lambda, FromInt(n)))

\* the body of "for (let j = 0; j < p; j++)" for column j
CoordinateUpdate64(XStd, y, beta, j, lambda) ==
    [beta EXCEPT ![j] = NewCoefficient64(j, Correlation64(XStd, y, beta, j), lambda,
                                         Len(XStd))]

RECURSIVE Sweep64(_, _, _, _, _)
Sweep64(XStd, y, beta, j, lambda) ==
    IF j > Len(beta) THEN beta
    ELSE Sweep64(XStd, y, CoordinateUpdate64(XStd, y, beta, j, lambda), j + 1, lambda)

\* reduce((sum, b, j) => sum + Math.abs(b - from[j]), 0) over the columns
\* first..Len(to) of `to`
AbsDiffSum64(to, from, first) ==
    Sum64(Arr([j \in 1..Len(to) |-> Abs64(Sub64(to[j], from[j]))]), first, Len(to), Zero64)

\* iter < maxIter
LoopCondition64(iter) == iter < MAX_ITER

ConvergedInvertedTolerance(beta, oldBeta) ==
    Lt64(AbsDiffSum64(beta, oldBeta, 1), FromInt(TOLERANCE_INV))

\* change < tolerance, for the change from oldBeta to beta
Converged64(beta, oldBeta) == Lt64(AbsDiffSum64(beta, oldBeta, 1), Dec64(1, TOLERANCE_INV))

RECURSIVE Descend64(_, _, _, _, _)
Descend64(XStd, y, beta, iter, lambda) ==
    IF ~LoopCondition64(iter) THEN beta
    ELSE With(Sweep64(XStd, y, beta, 1, lambda),
              LAMBDA newBeta :
                  IF Converged64(newBeta, beta) THEN newBeta
                  ELSE Descend64(XStd, y, newBeta, iter + 1, lambda))

\* y.map((yi, i) => yi - predicted)
Residuals64(XStd, y, beta) ==
    Arr([i \in 1..Len(y) |-> Sub64(y[i], DotExcept64(XStd[i], beta, 0, 1, Zero64))])

lassoRegression64(X, y, lambda) ==
    With(Standardize64(X),
         LAMBDA XStd :
             With(Descend64(XStd, y, Arr([j \in 1..Len(X[1]) |-> Zero64]), 0, lambda),
                  LAMBDA beta :
                      [ coefficients |-> beta, residuals |-> Residuals64(XStd, y, beta) ]))

\* Math.random(): the k-th draw of the run, a fixed-point number in [0, 1)
Random(k) == rnd[((k - 1) % Len(rnd)) + 1]

TreePredictionUncentred(res, dAhead, drawn) ==
    RDiv(SumSeq(Arr([i \in 1..Len(res) |->
                        res[((Random(drawn + i) * Len(res)) \div SCALE) + 1]])), Len(res))
    + FMul(FMul(Random(drawn + Len(res) + 1), SCALE \div 100), FSqrt(dAhead * SCALE))

\* one ensemble member; `drawn` draws were consumed before it
TreePrediction(res, dAhead, drawn) ==
    LET n == Len(res)
        bootstrapIndices == Arr([i \in 1..n |-> (Random(drawn + i) * n) \div SCALE])
        bootstrapResiduals == Arr([i \in 1..n |-> res[bootstrapIndices[i] + 1]])
        meanResidual == RDiv(SumSeq(bootstrapResiduals), n)
        treeFactor == FMul(FMul(Random(drawn + n + 1) - SCALE \div 2, SCALE \div 100),
                           FSqrt(dAhead * SCALE))
    IN  meanResidual + treeFactor

simulateRandomForestOnResiduals(res, feats, nEstimators, dAhead, drawn) ==
    Arr([tree \in 1..nEstimators |->
        TreePrediction(res, dAhead, drawn + (tree - 1) * (Len(res) + 1))])

-----------------------------------------------------------------------------
(* PredictionService.generatePredictions *)

RECENT == 10

\* (recentPrices[last] - recentPrices[0]) / (recentPrices.length - 1)
AvgDailyChange(bars) ==
    LET recentPrices == SliceLast(Closes(bars), RECENT)
    IN  IF Len(recentPrices) > 1
        THEN RDiv(recentPrices[Len(recentPrices)] - recentPrices[1],
                  Len(recentPrices) - 1)
        ELSE 0

\* currentPrice > lastPrice ? 'up' : currentPrice < lastPrice ? 'down' : 'neutral'
Trend(price, last) ==
    IF price > last THEN "up" ELSE IF price < last THEN "down" ELSE "neutral"

IsWeekendLong(t) == GetDay(t) = 0 \/ GetDay(t) >= 5

\* the weekend test of the loop
IsWeekend(t) == GetDay(t) = 0 \/ GetDay(t) = 6

\* Math.pow(daysAhead, 1.5)
Pow15Shrinking(dAhead) == FDiv(SCALE, dAhead * SCALE)
Pow15(dAhead) == FMul(dAhead * SCALE, FSqrt(dAhead * SCALE))

ConfidenceIntervalNegated(variance, dAhead) ==
    -FMul(196 * (SCALE \div 100), FMul(SqrtVar(variance), Pow15(dAhead)))

\* stdDev = Math.sqrt(variance) * Math.pow(daysAhead, 1.5);
\* confidenceInterval = 1.96 * stdDev
ConfidenceInterval(variance, dAhead) ==
    LET stdDev == FMul(SqrtVar(variance), Pow15(dAhead))
    IN  FMul(196 * (SCALE \div 100), stdDev)

\* the price the trend label is compared with; prev is the running price
\* before this step
TrendReferencePrevious(prev) == prev
TrendReference(prev) == lastPrice

\* the weight of the mean forest residual in dailyChange: the literal 0.1,
\* whatever the params say
ResidualWeightFromParams(params) == params.regression_weight
ResidualWeight(params) == SCALE \div 10

\* const predictions: Prediction[] = []
StalePredictions == predictions
NewPredictions == <<>>

\* one forecast step for the date `date`, the horizon index dAhead and the
\* running price `price`: the new price and the Prediction pushed
ForecastStep(date, dAhead, price) ==
    LET trendComponent == FMul(avgDailyChange, 3 * (SCALE \div 10))
        volatilityComponent ==
            FMul(FMul(Random(rp + 1) - SCALE \div 2, lastPrice), 2 * (SCALE \div 100))
        timeDecay == FExp(-(dAhead * 5 * (SCALE \div 100)))
        rfResidualPredictions ==
            simulateRandomForestOnResiduals(residuals, features,
                                            modelParams.n_estimators, dAhead, rp + 1)
        cnt == Len(rfResidualPredictions)
        meanRfResidual == RDiv(SumSeq(rfResidualPredictions), cnt)
        dailyChange == trendComponent + FMul(volatilityComponent, timeDecay)
                       + FMul(meanRfResidual, ResidualWeight(modelParams))
        newPrice == price + dailyChange
        variance == Variance(Arr([k \in 1..cnt |->
                                    rfResidualPredictions[k] - meanRfResidual]))
        confidenceInterval == ConfidenceInterval(variance, dAhead)
    IN  [ price |-> newPrice,
          draws |-> 1 + cnt * (Len(residuals) + 1),
          prediction |->
            [ date |-> ToISODate(date),
              predicted_price |-> ToFixed2(newPrice),
              confidence_interval_lower |-> ToFixed2(newPrice - confidenceInterval),
              confidence_interval_upper |-> ToFixed2(newPrice + confidenceInterval),
              trend |-> Trend(newPrice, TrendReference(price)) ] ]

\* while (predictionCount < forecastDays)
LoopConditionOffByOne == predictionCount <= forecastDays
LoopCondition == predictionCount < forecastDays

\* stockData.length === 0
IsEmptyNever(bars) == Len(bars) < 0
IsEmpty(bars) == Len(bars) = 0

\* if (stockData.length === 0) return [];
ReturnEmpty ==
    /\ pc = "call"
    /\ IsEmpty(stockData)
    /\ predictions' = <<>>
    /\ pc' = "done"
    /\ UNCHANGED <<stockData, forecastDays, modelParams, tz, rnd, version, features,
                   residuals, coefficients, lastPrice, avgDailyChange, currentPrice,
                   predictionCount, daysAhead, currentDate, rp, rsiOut, ui, calls, now, lastRun, rows64, fit64, lasso>>

\* feature creation, Lasso fit and the initialisation of the loop variables;
\* on an empty matrix lassoRegression reads X[0].length and throws a TypeError
Prepare ==
    /\ pc = "call"
    /\ ~IsEmpty(stockData)
    /\ IF Len(createFeatureMatrix(stockData)) = 0
       THEN /\ pc' = "threw"
            /\ UNCHANGED <<features, residuals, coefficients, lastPrice, avgDailyChange,
                           currentPrice, predictionCount, daysAhead, currentDate,
                           predictions>>
       ELSE /\ LET feats == createFeatureMatrix(stockData)
                   targets == Closes(SliceLast(stockData, WINDOW))
                   fit == lassoRegression(feats, targets, modelParams.lasso_penalty)
                   lastDate == ParseDate(stockData[Len(stockData)].date)
               IN  /\ features' = feats
                   /\ residuals' = fit.residuals
                   /\ coefficients' = fit.coefficients
                   /\ lastPrice' = stockData[Len(stockData)].close
                   /\ avgDailyChange' = AvgDailyChange(stockData)
                   /\ currentPrice' = stockData[Len(stockData)].close
                   /\ predictionCount' = 0
                   /\ daysAhead' = 1
                   /\ currentDate' = IF version = "orchestrator"
                                     THEN SetDatePlusOne(lastDate)
                                     ELSE lastDate
            /\ predictions' = NewPredictions
            /\ pc' = "loop"
    /\ UNCHANGED <<stockData, forecastDays, modelParams, tz, rnd, version, rp, rsiOut,
                   ui, calls, now, lastRun, rows64, fit64, lasso>>

\* orchestrator revision: one turn of the inner "while (weekend)" loop
OrchSkipWeekend ==
    /\ pc = "loop" /\ version = "orchestrator"
    /\ LoopCondition
    /\ IsWeekend(currentDate)
    /\ currentDate' = SetDatePlusOne(currentDate)
    /\ UNCHANGED <<stockData, forecastDays, modelParams, tz, rnd, version, pc,
                   features, residuals, coefficients, lastPrice, avgDailyChange, currentPrice,
                   predictionCount, daysAhead, predictions, rp, rsiOut, ui, calls, now, lastRun, rows64, fit64, lasso>>

\* orchestrator revision: the rest of the outer loop body
OrchEmit ==
    /\ pc = "loop" /\ version = "orchestrator"
    /\ LoopCondition
    /\ ~IsWeekend(currentDate)
    /\ LET step == ForecastStep(currentDate, daysAhead, currentPrice)
       IN  /\ currentPrice' = step.price
           /\ predictions' = Append(predictions, step.prediction)
           /\ rp' = rp + step.draws
    /\ predictionCount' = predictionCount + 1
    /\ daysAhead' = daysAhead + 1
    /\ currentDate' = SetDatePlusOne(currentDate)
    /\ UNCHANGED <<stockData, forecastDays, modelParams, tz, rnd, version, pc,
                   features, residuals, coefficients, lastPrice, avgDailyChange, rsiOut, ui, calls, now, lastRun, rows64, fit64, lasso>>

\* class revision: advance the date, it is a weekend day: continue
ClassSkipWeekend ==
    /\ pc = "loop" /\ version = "class"
    /\ LoopCondition
    /\ IsWeekend(SetDatePlusOne(currentDate))
    /\ currentDate' = SetDatePlusOne(currentDate)
    /\ UNCHANGED <<stockData, forecastDays, modelParams, tz, rnd, version, pc,
                   features, residuals, coefficients, lastPrice, avgDailyChange, currentPrice,
                   predictionCount, daysAhead, predictions, rp, rsiOut, ui, calls, now, lastRun, rows64, fit64, lasso>>

DaysAheadForZeroBased(count) == count

\* class revision: const daysAhead = predictionCount + 1
DaysAheadFor(count) == count + 1

\* class revision: advance the date, it is a weekday: emit a prediction
ClassEmit ==
    /\ pc = "loop" /\ version = "class"
    /\ LoopCondition
    /\ ~IsWeekend(SetDatePlusOne(currentDate))
    /\ LET step == ForecastStep(SetDatePlusOne(currentDate), DaysAheadFor(predictionCount),
                                currentPrice)
       IN  /\ currentPrice' = step.price
           /\ predictions' = Append(predictions, step.prediction)
           /\ rp' = rp + step.draws
    /\ predictionCount' = predictionCount + 1
    /\ daysAhead' = DaysAheadFor(predictionCount + 1)
    /\ currentDate' = SetDatePlusOne(currentDate)
    /\ UNCHANGED <<stockData, forecastDays, modelParams, tz, rnd, version, pc,
                   features, residuals, coefficients, lastPrice, avgDailyChange, rsiOut, ui, calls, now, lastRun, rows64, fit64, lasso>>

\* the loop condition fails: return predictions
Return ==
    /\ pc = "loop"
    /\ ~LoopCondition
    /\ pc' = "done"
    /\ UNCHANGED <<stockData, forecastDays, modelParams, tz, rnd, version, features,
                   residuals, coefficients, lastPrice, avgDailyChange, currentPrice,
                   predictionCount, daysAhead, currentDate, predictions, rp, rsiOut, ui, calls, now, lastRun, rows64, fit64, lasso>>

\* number of the running (or just finished) call, and the index of the draw
\* before its first one
RunNumber == IF Len(lastRun) = 0 THEN 1 ELSE lastRun[1].run + 1
RunStart == IF Len(lastRun) = 0 THEN 0 ELSE lastRun[1].end

\* the page: handleGeneratePredictions stores the result with setPredictions;
\* then setModelParams(params) (handleParamsOptimized) or a changed symbol
\* re-runs the effect that calls generatePredictions on the same bars.
\* Math.random() goes on where the finished call left it.
Regenerate(params) ==
    /\ pc = "done"
    /\ Len(stockData) > 0
    /\ RunNumber < MaxRuns
    /\ lastRun' = << [ run |-> RunNumber, params |-> modelParams, start |-> RunStart,
                       end |-> rp, predictions |-> predictions ] >>
    /\ modelParams' = params
    /\ pc' = "call"
    /\ UNCHANGED <<stockData, forecastDays, tz, rnd, version, features, residuals,
                   coefficients, lastPrice, avgDailyChange, currentPrice,
                   predictionCount, daysAhead, currentDate, predictions, rp, rsiOut,
                   ui, calls, now, rows64, fit64, lasso>>

-----------------------------------------------------------------------------
(* Inputs *)

TimeZones == {-8, -5, 0, 1, 9}
RandomValues == {0, SCALE \div 2, SCALE - 1}
Slopes == {-1, 0, 1}

DefaultParams(nEst) ==
    [ n_estimators |-> nEst, max_depth |-> 10, min_samples_split |-> 5,
      min_samples_leaf |-> 2, regression_weight |-> 3 * (SCALE \div 10),
      feature_importance_threshold |-> SCALE \div 100,
      lasso_penalty |-> SCALE \div 10 ]

\* a series of n bars on consecutive calendar days ending on lastDay
GenSeries(n, slope, pat, lastDay) ==
    Arr([i \in 1..n |->
        [ date   |-> lastDay - (n - i),
          close  |-> (BasePrice + slope * (i - 1) + pat[((i - 1) % Len(pat)) + 1]) * SCALE,
          volume |-> VOLUME_NORM + pat[((i - 1) % Len(pat)) + 1] * 5000000 ]])

ZeroPattern == [k \in 1..PatLen |-> 0]

\* useState initial values of useStockData; toastSymbol is the querySymbol named
\* in the title of the last toast, that of the call that last set stockData
InitialUi ==
    [ currentPrice |-> <<>>, dataSource |-> "mock", isLoading |-> FALSE,
      stockSymbol |-> "SPY", mounted |-> FALSE, toastSymbol |-> <<>> ]

\* the state at the call of generatePredictions, inputs drawn from the given sets
InitWith(lens, slopes, lastDays, horizons, nEsts, zones, streams) ==
    /\ \E n \in lens, slope \in slopes, lastDay \in lastDays :
            stockData = GenSeries(n, slope, ZeroPattern, lastDay)
    /\ forecastDays \in horizons
    /\ \E nEst \in nEsts : modelParams = DefaultParams(nEst)
    /\ tz \in zones
    /\ rnd \in streams
    /\ version \in {"orchestrator", "class"}
    /\ pc = "call"
    /\ features = <<>>
    /\ residuals = <<>>
    /\ coefficients = <<>>
    /\ lastRun = <<>>
    /\ rows64 = <<>>
    /\ fit64 = <<>>
    /\ lasso = <<>>
    /\ lastPrice = 0
    /\ avgDailyChange = 0
    /\ currentPrice = 0
    /\ predictionCount = 0
    /\ daysAhead = 0
    /\ currentDate = 0
    /\ predictions = <<>>
    /\ rp = 0
    /\ rsiOut = 0
    /\ ui = InitialUi
    /\ calls = <<>>
    /\ now = 0

\* price-centred inputs: every series shape, ensemble size and random stream,
\* the last bar on the Friday of the base week
Init ==
    InitWith(0..MaxLen, Slopes, {BaseDay + 4}, 1..MaxForecastDays, 1..2,
             {-5, 0}, [1..2 -> RandomValues])

\* date-centred inputs: every weekday of the last bar, every time zone
InitDates ==
    InitWith(0..1, {0}, BaseDay..(BaseDay + 6), 1..MaxForecastDays, {1},
             TimeZones, {<<SCALE \div 2, SCALE - 1>>})

\* ModelParams values handed to setModelParams
ParamChoices ==
    { [ n_estimators |-> nEst, max_depth |-> inert[1], min_samples_split |-> inert[2],
        min_samples_leaf |-> inert[3], regression_weight |-> inert[4],
        feature_importance_threshold |-> inert[5], lasso_penalty |-> penalty ] :
      nEst \in 1..2,
      inert \in { <<10, 5, 2, 3 * (SCALE \div 10), SCALE \div 100>>,
                  <<3, 2, 1, 3 * SCALE, SCALE \div 2>> },
      penalty \in {SCALE \div 10, SCALE} }

\* repeated calls: the page regenerates the forecast on the same bars
InitRerun ==
    InitWith(1..MaxLen, {1}, {BaseDay + 4}, 1..2, 1..2, {0},
             { <<0, SCALE - 1>>, <<SCALE - 1, 0>>, <<SCALE \div 2, SCALE \div 2>> })

Next ==
    \/ ReturnEmpty
    \/ Prepare
    \/ OrchSkipWeekend
    \/ OrchEmit
    \/ ClassSkipWeekend
    \/ ClassEmit
    \/ Return

Spec == Init /\ [][Next]_vars

SpecDates == InitDates /\ [][Next]_vars

\* fit-centred inputs: series shorter and longer than the 60-bar window
InitFit ==
    InitWith({0, 1, MaxLen, WINDOW, WINDOW + 1}, {0, 1}, {BaseDay + 4}, 1..2, 1..2, {0},
             { <<0, SCALE - 1>> })

SpecFit == InitFit /\ [][Next]_vars

NextRerun ==
    \/ Prepare
    \/ OrchSkipWeekend
    \/ OrchEmit
    \/ ClassSkipWeekend
    \/ ClassEmit
    \/ Return
    \/ \E params \in ParamChoices : Regenerate(params)

SpecRerun == InitRerun /\ [][NextRerun]_vars

-----------------------------------------------------------------------------
(* The two revisions of generatePredictions on one input: after a call has  *)
(* returned, the other revision is called with the same arguments and the   *)
(* same sequence of Math.random() draws                                     *)

InitEquiv ==
    InitWith(0..MaxLen, {1}, BaseDay..(BaseDay + 6), 1..MaxForecastDays, 1..2, {-5, 9},
             { <<0, SCALE - 1>>, <<SCALE \div 2, 0, SCALE - 1>> })

RunOtherRevision ==
    /\ pc = "done"
    /\ lastRun = <<>>
    /\ lastRun' = << [ run |-> 1, params |-> modelParams, start |-> 0, end |-> rp,
                       predictions |-> predictions, daysAhead |-> daysAhead ] >>
    /\ version' = IF version = "class" THEN "orchestrator" ELSE "class"
    /\ rp' = 0
    /\ pc' = "call"
    /\ UNCHANGED <<stockData, forecastDays, modelParams, tz, rnd, features, residuals,
                   coefficients, lastPrice, avgDailyChange, currentPrice,
                   predictionCount, daysAhead, currentDate, predictions, rsiOut,
                   ui, calls, now, rows64, fit64, lasso>>

NextEquiv ==
    \/ ReturnEmpty
    \/ Prepare
    \/ OrchSkipWeekend
    \/ OrchEmit
    \/ ClassSkipWeekend
    \/ ClassEmit
    \/ Return
    \/ RunOtherRevision

SpecEquiv == InitEquiv /\ [][NextEquiv]_vars

-----------------------------------------------------------------------------
(* Stand-alone runs of the feature functions *)

forecastVars == <<forecastDays, modelParams, tz, rnd, version, residuals, coefficients, lastPrice,
                  avgDailyChange, currentPrice, predictionCount, daysAhead,
                  currentDate, predictions, rp>>

hookVars == <<ui, calls, now, lastRun, rows64, fit64, lasso>>

Patterns == [1..PatLen -> 0..MaxDelta]

InitFeatures ==
    /\ \E n \in (0..MaxBars) \cup {WINDOW, WINDOW + 1}, slope \in Slopes, pat \in Patterns :
            stockData = GenSeries(n, slope, pat, BaseDay + 4)
    /\ forecastDays = 1
    /\ modelParams = DefaultParams(1)
    /\ tz = 0
    /\ rnd = <<0>>
    /\ version = "orchestrator"
    /\ pc = "input"
    /\ features = <<>>
    /\ residuals = <<>>
    /\ coefficients = <<>>
    /\ lastRun = <<>>
    /\ rows64 = <<>>
    /\ fit64 = <<>>
    /\ lasso = <<>>
    /\ lastPrice = 0
    /\ avgDailyChange = 0
    /\ currentPrice = 0
    /\ predictionCount = 0
    /\ daysAhead = 0
    /\ currentDate = 0
    /\ predictions = <<>>
    /\ rp = 0
    /\ rsiOut = 0
    /\ ui = InitialUi
    /\ calls = <<>>
    /\ now = 0

RunCalculateRSI ==
    /\ pc = "input"
    /\ rsiOut' = calculateRSI(stockData)
    /\ pc' = "rsi"
    /\ UNCHANGED <<stockData, features, forecastVars, hookVars>>

RunCreateFeatureMatrix ==
    /\ pc = "input"
    /\ features' = createFeatureMatrix(stockData)
    /\ pc' = "features"
    /\ UNCHANGED <<stockData, rsiOut, forecastVars, hookVars>>

NextFeatures == RunCalculateRSI \/ RunCreateFeatureMatrix

SpecFeatures == InitFeatures /\ [][NextFeatures]_vars

-----------------------------------------------------------------------------
(* Stand-alone calls of lassoRegression on one feature matrix, in the       *)
(* double arithmetic of the code                                            *)

\* the penalties of the optimizer's parameter sets, in increasing order
Penalties64 ==
    << Dec64(1, 100), Dec64(5, 100), Dec64(1, 10), Dec64(1, 2), FromInt(1), FromInt(2) >>

InitLasso ==
    \* a flat close pattern and one alternating between 0 and MaxDelta dollars
    /\ \E n \in 1..MaxFitLen, slope \in Slopes,
           pat \in {ZeroPattern, [k \in 1..PatLen |-> (k % 2) * MaxDelta]} :
            stockData = GenSeries(n, slope, pat, BaseDay + 4)
    /\ forecastDays = 1
    /\ modelParams = DefaultParams(1)
    /\ tz = 0
    /\ rnd = <<0>>
    /\ version = "orchestrator"
    /\ pc = "input"
    /\ features = <<>>
    /\ residuals = <<>>
    /\ coefficients = <<>>
    /\ lastRun = <<>>
    /\ rows64 = <<>>
    /\ fit64 = <<>>
    /\ lasso = <<>>
    /\ lastPrice = 0
    /\ avgDailyChange = 0
    /\ currentPrice = 0
    /\ predictionCount = 0
    /\ daysAhead = 0
    /\ currentDate = 0
    /\ predictions = <<>>
    /\ rp = 0
    /\ rsiOut = 0
    /\ ui = InitialUi
    /\ calls = <<>>
    /\ now = 0

\* features and targets as generatePredictions builds them, then one fit; a
\* second call fits the same matrix and targets
CallLassoRegression64(lambda) ==
    /\ pc \in {"input", "fit64"}
    /\ lastRun = <<>>
    /\ rows64' = IF pc = "input" THEN createFeatureMatrix64(stockData) ELSE rows64
    /\ fit64' = << With(lassoRegression64(rows64', Column(rows64', 2), lambda),
                        LAMBDA fit : [ lambda |-> lambda,
                                       coefficients |-> fit.coefficients,
                                       residuals |-> fit.residuals ]) >>
    /\ lastRun' = fit64
    /\ pc' = "fit64"
    /\ UNCHANGED <<stockData, forecastDays, modelParams, tz, rnd, version, features,
                   residuals, coefficients, lastPrice, avgDailyChange, currentPrice,
                   predictionCount, daysAhead, currentDate, predictions, rp, rsiOut, ui,
                   calls, now, lasso>>

\* the second call takes the next double above the first penalty, or the
\* next larger penalty of the list
NextLasso ==
    \/ \E k \in 1..Len(Penalties64) : pc = "input" /\ CallLassoRegression64(Penalties64[k])
    \/ \E k \in 1..Len(Penalties64) :
            /\ pc = "fit64"
            /\ fit64[1].lambda = Penalties64[k]
            /\ \/ CallLassoRegression64(NextUp64(Penalties64[k]))
               \/ k < Len(Penalties64) /\ CallLassoRegression64(Penalties64[k + 1])

SpecLasso == InitLasso /\ [][NextLasso]_vars

-----------------------------------------------------------------------------
(* Stand-alone runs of createFeatureMatrix on constant series, with the     *)
(* ratio columns computed in double precision                               *)

\* n bars of one close, given in cents, and volume 40,000,000
ConstantSeries(n, cents) ==
    Arr([i \in 1..n |->
        [ date   |-> BaseDay + 4 - (n - i),
          close  |-> cents * (SCALE \div 100),
          volume |-> VOLUME_NORM ]])

InitConstant ==
    /\ \E cents \in (BasePrice * 100)..(BasePrice * 100 + MaxCents) :
            stockData = ConstantSeries(WINDOW, cents)
    /\ forecastDays = 1
    /\ modelParams = DefaultParams(1)
    /\ tz = 0
    /\ rnd = <<0>>
    /\ version = "orchestrator"
    /\ pc = "input"
    /\ features = <<>>
    /\ residuals = <<>>
    /\ coefficients = <<>>
    /\ lastRun = <<>>
    /\ rows64 = <<>>
    /\ fit64 = <<>>
    /\ lasso = <<>>
    /\ lastPrice = 0
    /\ avgDailyChange = 0
    /\ currentPrice = 0
    /\ predictionCount = 0
    /\ daysAhead = 0
    /\ currentDate = 0
    /\ predictions = <<>>
    /\ rp = 0
    /\ rsiOut = 0
    /\ ui = InitialUi
    /\ calls = <<>>
    /\ now = 0

RunCreateFeatureMatrix64 ==
    /\ pc = "input"
    /\ features' = createFeatureMatrix(stockData)
    /\ rows64' = createFeatureMatrix64(stockData)
    /\ pc' = "features64"
    /\ UNCHANGED <<stockData, rsiOut, forecastVars, ui, calls, now, lastRun, fit64, lasso>>

NextConstant == RunCreateFeatureMatrix64

SpecConstant == InitConstant /\ [][NextConstant]_vars

-----------------------------------------------------------------------------
(* lassoRegression step by step, in the double arithmetic of the code: one  *)
(* action per coordinate update and per turn of the outer loop.  Columns    *)
(* and coefficients are numbered from 1, so column 1 is the intercept       *)
(* (column 0 of the code).                                                  *)

\* the columns of the feature matrix handed over as y: the closes, as
\* generatePredictions does, and sma5, a target with which the descent on
\* the falling zig-zag series goes on to the iteration limit
DescentTargets == {2, 3}

ZigZagSeries ==
    GenSeries(MaxDescentLen, -1, [k \in 1..PatLen |-> (k % 2) * MaxDelta], BaseDay + 4)

InitDescent ==
    /\ \/ \E n \in {1, MaxDescentLen}, slope \in Slopes,
             pat \in {ZeroPattern, [k \in 1..PatLen |-> (k % 2) * MaxDelta]} :
               stockData = GenSeries(n, slope, pat, BaseDay + 4)
       \/ \E cents \in (BasePrice * 100)..(BasePrice * 100 + MaxDescentCents) :
               stockData = ConstantSeries(MaxDescentLen, cents)
    /\ forecastDays = 0
    /\ modelParams = DefaultParams(1)
    /\ tz = 0
    /\ rnd = <<0>>
    /\ version = "orchestrator"
    /\ pc = "input"
    /\ features = <<>>
    /\ residuals = <<>>
    /\ coefficients = <<>>
    /\ lastPrice = 0
    /\ avgDailyChange = 0
    /\ currentPrice = 0
    /\ predictionCount = 0
    /\ daysAhead = 0
    /\ currentDate = 0
    /\ predictions = <<>>
    /\ rp = 0
    /\ rsiOut = 0
    /\ ui = InitialUi
    /\ calls = <<>>
    /\ now = 0
    /\ lastRun = <<>>
    /\ rows64 = <<>>
    /\ fit64 = <<>>
    /\ lasso = <<>>

descentFrame == <<stockData, forecastDays, modelParams, tz, rnd, version, features,
                  residuals, coefficients, lastPrice, avgDailyChange, currentPrice,
                  predictionCount, daysAhead, currentDate, predictions, rp, rsiOut, ui,
                  calls, now, lastRun>>

\* the call up to the outer loop: beta, the standardized matrix, iter = 0
EnterLassoRegression(target, lambda) ==
    /\ pc = "input"
    /\ rows64' = createFeatureMatrix64(stockData)
    /\ lasso' = << [ XStd |-> Standardize64(rows64'), y |-> Column(rows64', target),
                     lambda |-> lambda,
                     beta |-> Arr([j \in 1..Len(rows64'[1]) |-> Zero64]),
                     oldBeta |-> <<>>, iter |-> 0, j |-> 1, correlation |-> Zero64 ] >>
    /\ pc' = "loop"
    /\ UNCHANGED <<descentFrame, fit64>>

\* the test of the outer loop and, inside it, const oldBeta = [...beta]
LoopTest ==
    /\ pc = "loop"
    /\ IF LoopCondition64(lasso[1].iter)
       THEN /\ lasso' = << [lasso[1] EXCEPT !.oldBeta = lasso[1].beta, !.j = 1] >>
            /\ pc' = "sweep"
       ELSE /\ pc' = "exit"
            /\ UNCHANGED lasso
    /\ UNCHANGED <<descentFrame, rows64, fit64>>

\* one turn of "for (let j = 0; j < p; j++)"
UpdateCoordinate ==
    /\ pc = "sweep"
    /\ lasso[1].j <= Len(lasso[1].beta)
    /\ lasso' = << With(Correlation64(lasso[1].XStd, lasso[1].y, lasso[1].beta, lasso[1].j),
                        LAMBDA correlation :
                            [lasso[1] EXCEPT
                                !.correlation = correlation,
                                !.beta[lasso[1].j] =
                                    NewCoefficient64(lasso[1].j, correlation, lasso[1].lambda,
                                                     Len(lasso[1].XStd)),
                                !.j = lasso[1].j + 1]) >>
    /\ UNCHANGED <<descentFrame, pc, rows64, fit64>>

\* the end of the loop body: break, or iter++
EndIteration ==
    /\ pc = "sweep"
    /\ lasso[1].j > Len(lasso[1].beta)
    /\ IF Converged64(lasso[1].beta, lasso[1].oldBeta)
       THEN /\ pc' = "exit"
            /\ UNCHANGED lasso
       ELSE /\ lasso' = << [lasso[1] EXCEPT !.iter = lasso[1].iter + 1] >>
            /\ pc' = "loop"
    /\ UNCHANGED <<descentFrame, rows64, fit64>>

\* the residuals and the return
ReturnLassoRegression ==
    /\ pc = "exit"
    /\ fit64' = << [ lambda |-> lasso[1].lambda, coefficients |-> lasso[1].beta,
                     residuals |-> Residuals64(lasso[1].XStd, lasso[1].y, lasso[1].beta) ] >>
    /\ pc' = "returned"
    /\ UNCHANGED <<descentFrame, rows64, lasso>>

NextDescent ==
    \/ \E target \in DescentTargets, k \in {1, Len(Penalties64)} :
            /\ target = 2 \/ (k = 1 /\ stockData = ZigZagSeries)
            /\ EnterLassoRegression(target, Penalties64[k])
    \/ LoopTest
    \/ UpdateCoordinate
    \/ EndIteration
    \/ ReturnLassoRegression

SpecDescent == InitDescent /\ [][NextDescent]_vars

-----------------------------------------------------------------------------
(* The bar source: formatters.ts, stockApi.ts, useStockData *)

MOCK_DAYS == 252

\* filterWeekendDays: keeps the items whose LOCAL day of week is not 0 or 6
KeepsDay(item) ==
    LET dayOfWeek == GetDay(ParseDate(item.date))
    IN  dayOfWeek # 0 /\ dayOfWeek # 6

filterWeekendDays(data) == SelectSeq(data, KeepsDay)

HasClose(q) == q.close # <<>>

\* formatYahooFinanceData: drops the entries without a close, dates each entry
\* by the UTC day of its timestamp, rounds to cents, filters the weekend days
formatYahooFinanceData(raw) ==
    LET quoted == SelectSeq(raw, HasClose)
        formattedData ==
            Arr([k \in 1..Len(quoted) |->
                    [ date   |-> ToISODate(quoted[k].timestamp),
                      close  |-> ToFixed2(quoted[k].close[1]),
                      volume |-> quoted[k].volume ]])
    IN  filterWeekendDays(formattedData)

\* basePrice of generateMockData
MockBasePrice(symbol) ==
    IF symbol = "MSFT" THEN 350
    ELSE IF symbol = "TSLA" THEN 800
    ELSE IF symbol = "GOOGL" THEN 2800
    ELSE IF symbol = "AAPL" THEN 175
    ELSE 450

\* the i-th bar (i = 0..251) of generateMockData; startDate is the Date 252
\* local days before now, `drawn` the draws consumed before the call
MockBar(symbol, i, startDate, drawn) ==
    LET date == startDate + 24 * i
        volatility == 15 * (SCALE \div 1000)
        trend == RDiv(3 * SCALE, 10000)
        randomFactor == FMul(FMul(Random(drawn + 6 * i + 1) - SCALE \div 2, 2 * SCALE),
                             volatility)
        price == FMul(MockBasePrice(symbol) * SCALE, FExp((trend + randomFactor) * i))
        dailyVolatility == FMul(price, 8 * (SCALE \div 1000))
        close == price + FMul(Random(drawn + 6 * i + 3) - SCALE \div 2, dailyVolatility)
    IN  [ date   |-> ToISODate(date),
          close  |-> ToFixed2(close),
          volume |-> (Random(drawn + 6 * i + 6) * (40000000 \div SCALE)) + 35000000 ]

\* startDate.setDate(startDate.getDate() - 252)
MockStartDate == (((now + tz) \div 24 - MOCK_DAYS) * 24 + ((now + tz) % 24)) - tz

generateMockData(symbol) ==
    Arr([k \in 1..MOCK_DAYS |-> MockBar(symbol, k - 1, MockStartDate, rp)])

RemoveAt(s, k) == SubSeq(s, 1, k - 1) \o SubSeq(s, k + 1, Len(s))

Symbols == {"SPY", "AAPL"}

\* the day of the clock, in UTC
Today == ToISODate(now)

\* a chart response covering the last RawDays calendar days, one quote per day
\* at 14:00 UTC; kind "weekdays" lists the exchange days only, "alldays" every
\* day (a symbol traded at weekends), "nulls" only quotes without a close
RawResponse(kind) ==
    LET days == IF kind = "weekdays"
                THEN SelectSeq([k \in 1..RawDays |-> Today - RawDays + k],
                               LAMBDA d : ~IsWeekendDay(d))
                ELSE [k \in 1..RawDays |-> Today - RawDays + k]
    IN  Arr([k \in 1..Len(days) |->
                [ timestamp |-> days[k] * 24 + 14,
                  close     |-> IF kind = "nulls" THEN <<>>
                                ELSE <<(BasePrice + k) * SCALE + 4>>,
                  volume    |-> VOLUME_NORM ]])

RawKinds == {"weekdays", "alldays", "nulls"}

modelVars == <<forecastDays, modelParams, version, pc, features, residuals, coefficients, lastPrice,
               avgDailyChange, currentPrice, predictionCount, daysAhead, currentDate,
               predictions, rsiOut, lastRun, rows64, fit64, lasso>>

\* the page mounts: the "fetch on load" effect calls handleFetchStockData() and
\* the "symbol changed" effect calls handleFetchStockData(stockSymbol); each
\* call sets isLoading and starts its fetch
Mount ==
    /\ ~ui.mounted
    /\ ui' = [ui EXCEPT !.mounted = TRUE, !.isLoading = TRUE]
    /\ calls' = calls \o <<ui.stockSymbol, ui.stockSymbol>>
    /\ UNCHANGED <<stockData, tz, rnd, rp, now, modelVars>>

\* handleSymbolSubmit: setStockSymbol(symbol) re-runs both effects; the Load
\* button is disabled while isLoading
SubmitSymbol(symbol) ==
    /\ ui.mounted
    /\ ~ui.isLoading
    /\ symbol # ui.stockSymbol
    /\ Len(calls) + 2 <= MaxCalls
    /\ ui' = [ui EXCEPT !.stockSymbol = symbol, !.isLoading = TRUE]
    /\ calls' = calls \o <<symbol, symbol>>
    /\ UNCHANGED <<stockData, tz, rnd, rp, now, modelVars>>

\* the catch branch of handleFetchStockData followed by finally
UseMock(k) ==
    /\ stockData' = generateMockData(calls[k])
    /\ ui' = [ui EXCEPT !.currentPrice = <<stockData'[Len(stockData')].close>>,
                        !.dataSource = "mock",
                        !.toastSymbol = <<calls[k]>>,
                        !.isLoading = FALSE]
    /\ rp' = (rp + 6 * MOCK_DAYS) % Len(rnd)
    /\ calls' = RemoveAt(calls, k)

FetchResolveUnchecked(k, kind) ==
    /\ k \in 1..Len(calls)
    /\ stockData' = formatYahooFinanceData(RawResponse(kind))
    /\ ui' = [ui EXCEPT !.currentPrice = IF Len(stockData') = 0 THEN <<>>
                                         ELSE <<stockData'[Len(stockData')].close>>,
                        !.dataSource = "yahoo",
                        !.toastSymbol = <<calls[k]>>,
                        !.isLoading = FALSE]
    /\ calls' = RemoveAt(calls, k)
    /\ rp' = rp
    /\ UNCHANGED <<tz, rnd, now, modelVars>>

\* fetchStockData answers call k with a chart response
FetchResolve(k, kind) ==
    /\ k \in 1..Len(calls)
    /\ LET data == formatYahooFinanceData(RawResponse(kind))
       IN  IF Len(data) = 0
           THEN UseMock(k)
           ELSE /\ stockData' = data
                /\ ui' = [ui EXCEPT !.currentPrice = <<data[Len(data)].close>>,
                                    !.dataSource = "yahoo",
                                    !.toastSymbol = <<calls[k]>>,
                                    !.isLoading = FALSE]
                /\ calls' = RemoveAt(calls, k)
                /\ rp' = rp
    /\ UNCHANGED <<tz, rnd, now, modelVars>>

\* fetchStockData of call k throws (network error, timeout, bad status)
FetchReject(k) ==
    /\ k \in 1..Len(calls)
    /\ UseMock(k)
    /\ UNCHANGED <<tz, rnd, now, modelVars>>

InitBars ==
    /\ stockData = <<>>
    /\ ui = InitialUi
    /\ calls = <<>>
    /\ now = (BaseDay + 4) * 24 + 21
    /\ tz \in {-5, 0, 9}
    /\ rnd = <<0, SCALE - 1, SCALE \div 2, SCALE \div 4, SCALE - 1, 0, 3 * (SCALE \div 4)>>
    /\ rp = 0
    /\ forecastDays = 1
    /\ modelParams = DefaultParams(1)
    /\ version = "orchestrator"
    /\ pc = "idle"
    /\ features = <<>>
    /\ residuals = <<>>
    /\ coefficients = <<>>
    /\ lastRun = <<>>
    /\ rows64 = <<>>
    /\ fit64 = <<>>
    /\ lasso = <<>>
    /\ lastPrice = 0
    /\ avgDailyChange = 0
    /\ currentPrice = 0
    /\ predictionCount = 0
    /\ daysAhead = 0
    /\ currentDate = 0
    /\ predictions = <<>>
    /\ rsiOut = 0

NextBars ==
    \/ Mount
    \/ \E symbol \in Symbols : SubmitSymbol(symbol)
    \/ \E k \in 1..Len(calls), kind \in RawKinds : FetchResolve(k, kind)
    \/ \E k \in 1..Len(calls) : FetchReject(k)

SpecBars == InitBars /\ [][NextBars]_vars

-----------------------------------------------------------------------------
(* Properties *)

LastBarDay == stockData[Len(stockData)].date

EmittedDates == [i \in 1..Len(predictions) |-> predictions[i].date]

\* C1: for every horizon D >= 1 and every series with at least one bar,
\* generatePredictions terminates and returns exactly D predictions, never
\* fewer and never more, whatever weekday the last bar falls on.
\* Termination is stated by its variant: every turn of the loop moves the date
\* forward or ends the loop, the count never decreases, and the date stays
\* within 7 days per prediction of the last bar, so the loop cannot turn for ever.
C1_ReturnsExactlyForecastDays ==
    /\ [](Len(stockData) >= 1 =>
            /\ Len(predictions) <= forecastDays
            /\ Len(predictions) = predictionCount
            /\ pc # "threw"
            /\ (pc = "done" => Len(predictions) = forecastDays)
            /\ (pc = "loop" =>
                  ToISODate(currentDate) - LastBarDay <= 7 * (predictionCount + 1)))
    /\ [][pc = "loop" =>
            /\ pc' \in {"loop", "done"}
            /\ predictionCount' >= predictionCount
            /\ (pc' = "loop" => currentDate' > currentDate)]_vars

C1_Witness ==
    /\ pc = "done"
    /\ Len(stockData) >= 1
    /\ IsWeekendDay(LastBarDay)
    /\ forecastDays >= 5
    /\ Len(predictions) = forecastDays

\* C2: the calendar date written into the date field of every emitted
\* prediction is not a Saturday or Sunday, for every last-bar date, horizon and
\* host time-zone offset.
C2_EmittedDatesAreWeekdays ==
    \A i \in 1..Len(predictions) : ~IsWeekendDay(predictions[i].date)

\* C3: the emitted dates form a gap-free weekday sequence: the first is the
\* first weekday strictly after the last bar's date and each later one is the
\* first weekday strictly after the previously emitted date.
C3_GapFreeWeekdaySequence ==
    \A i \in 1..Len(predictions) :
        predictions[i].date =
            NextWeekday(IF i = 1 THEN LastBarDay ELSE predictions[i - 1].date)

\* C4: with the last bar on a Friday and forecastDays = 5 the emitted dates are
\* exactly the Monday..Friday of the following week.
C4_FridayThenNextMondayToFriday ==
    (pc = "done" /\ Len(stockData) >= 1 /\ DayOfWeek(LastBarDay) = 5
                 /\ forecastDays = 5)
    => EmittedDates = << LastBarDay + 3, LastBarDay + 4, LastBarDay + 5,
                         LastBarDay + 6, LastBarDay + 7 >>

\* C5: called with an empty bar sequence, generatePredictions returns an empty
\* prediction sequence at once, for every horizon and ModelParams, without
\* raising an error and without feature building, Lasso fit or forecast loop.
C5_EmptyInputEmptyOutput ==
    Len(stockData) = 0 =>
        /\ pc \in {"call", "done"}
        /\ predictions = <<>>
        /\ features = <<>>
        /\ residuals = <<>>
        /\ predictionCount = 0
        /\ rp = 0

C5_Witness ==
    /\ pc = "done"
    /\ Len(stockData) = 0
    /\ forecastDays > 1
    /\ modelParams.n_estimators = 2

\* column 5 of a feature row is the RSI
RsiColumn == 5

\* C6: calculateRSI returns exactly 50 for every series with fewer than 14
\* bars; in particular every RSI computed by createFeatureMatrix for a series of
\* 13 bars is 50.
C6_ShortSeriesRSIIs50 ==
    Len(stockData) < 14 =>
        /\ pc = "rsi" => rsiOut = 50 * SCALE
        /\ pc = "features" =>
              \A i \in 1..Len(features) : features[i][RsiColumn] = 50 * SCALE

C6_Witness ==
    /\ pc = "features"
    /\ Len(stockData) = 13
    /\ Len(features) = 13
    /\ \E i \in 2..13 : stockData[i].close < stockData[i - 1].close
    /\ \E i \in 2..13 : stockData[i].close > stockData[i - 1].close

ConstantCloses == \A i \in 1..Len(stockData) : stockData[i].close = stockData[1].close

\* C7 (as claimed): for 60 bars of one constant close the RSI feature is 100 in
\* the rows built from at least 14 bars.
C7_ConstantSeriesRSIIs100 ==
    (pc = "features" /\ Len(stockData) = 60 /\ ConstantCloses)
    => \A i \in 14..60 : features[i][RsiColumn] = 100 * SCALE

\* C7 (amended): for 60 bars of one constant close the RSI feature is 0 in the
\* rows built from at least 14 bars (average gain 0 divided by the substituted
\* average loss 1), and 50 in the rows built from fewer bars.
C7_ConstantSeriesRSIIs0 ==
    (pc = "features" /\ Len(stockData) = 60 /\ ConstantCloses)
    => /\ \A i \in 14..60 : features[i][RsiColumn] = 0
       /\ \A i \in 1..13 : features[i][RsiColumn] = 50 * SCALE

C7_Witness ==
    /\ pc = "features"
    /\ Len(stockData) = 60
    /\ ConstantCloses
    /\ Len(features) = 60

\* C8: calculateRSI returns a value in [0, 100] for every series of positive
\* closes, also when the last 14 changes hold no loss or no gain.
C8_RSIWithinZeroAndHundred ==
    /\ pc = "rsi" => (0 <= rsiOut /\ rsiOut <= 100 * SCALE)
    /\ pc = "features" =>
          \A i \in 1..Len(features) :
              0 <= features[i][RsiColumn] /\ features[i][RsiColumn] <= 100 * SCALE

C8_Witness ==
    /\ pc = "rsi"
    /\ Len(stockData) >= 15
    /\ \A i \in (Len(stockData) - 13)..Len(stockData) :
            stockData[i].close >= stockData[i - 1].close
    /\ \E i \in (Len(stockData) - 13)..Len(stockData) :
            stockData[i].close > stockData[i - 1].close
    /\ rsiOut > 0
    /\ rsiOut <= 100 * SCALE

\* C9: every bar sequence the bar source hands to the forecast engine holds no
\* Saturday or Sunday entry, whether it came from fetchStockData or from
\* generateMockData.
C9_NoWeekendBars ==
    \A i \in 1..Len(stockData) : ~IsWeekendDay(stockData[i].date)

\* C10: the trend label of every emitted prediction compares the running
\* current price with the original last observed close, never with the previous
\* prediction: up when above, down when below, neutral when equal.
C10_TrendAgainstLastObservedClose ==
    predictions # <<>> =>
        predictions[Len(predictions)].trend =
            (IF currentPrice > stockData[Len(stockData)].close THEN "up"
             ELSE IF currentPrice < stockData[Len(stockData)].close THEN "down"
             ELSE "neutral")

C10_Witness ==
    /\ Len(predictions) >= 2
    /\ predictions[Len(predictions)].predicted_price
         < predictions[Len(predictions) - 1].predicted_price
    /\ predictions[Len(predictions)].predicted_price > stockData[Len(stockData)].close
    /\ predictions[Len(predictions)].trend = "up"

\* the finished call consumed the same sequence of Math.random() values as the
\* previous call
SameDraws ==
    LET prev == lastRun[1]
    IN  /\ prev.end - prev.start = rp - prev.end
        /\ \A k \in 1..(rp - prev.end) : Random(prev.start + k) = Random(prev.end + k)

\* C11: max_depth, min_samples_split, min_samples_leaf, regression_weight and
\* feature_importance_threshold are inert: two generatePredictions calls on the
\* same bars and horizon with the same n_estimators, lasso_penalty and random
\* draws return identical prediction sequences, whatever these fields hold.
C11_InertParamsDoNotChangeForecast ==
    ( /\ pc = "done"
      /\ Len(lastRun) = 1
      /\ modelParams.n_estimators = lastRun[1].params.n_estimators
      /\ modelParams.lasso_penalty = lastRun[1].params.lasso_penalty
      /\ SameDraws )
    => predictions = lastRun[1].predictions

C11_Witness ==
    /\ pc = "done"
    /\ Len(lastRun) = 1
    /\ modelParams.n_estimators = lastRun[1].params.n_estimators
    /\ modelParams.lasso_penalty = lastRun[1].params.lasso_penalty
    /\ modelParams.max_depth # lastRun[1].params.max_depth
    /\ modelParams.regression_weight # lastRun[1].params.regression_weight
    /\ SameDraws
    /\ rnd[1] # rnd[2]
    /\ Len(predictions) = 2
    /\ predictions = lastRun[1].predictions

\* C12: generatePredictions is a pure function of (bars, horizon, params,
\* random draws): a call repeated with the same arguments and the same draws
\* returns the same predictions, and a later call starts from fresh locals:
\* nothing the earlier call wrote is read.
C12_PureFunctionOfInputs ==
    /\ ( /\ pc = "done"
         /\ Len(lastRun) = 1
         /\ modelParams = lastRun[1].params
         /\ SameDraws )
       => predictions = lastRun[1].predictions
    /\ (pc = "loop" /\ predictionCount = 0)
       => /\ predictions = <<>>
          /\ currentPrice = lastPrice
          /\ rp = RunStart

C12_Witness ==
    /\ pc = "done"
    /\ Len(lastRun) = 1
    /\ modelParams = lastRun[1].params
    /\ SameDraws
    /\ rnd[1] # rnd[2]
    /\ lastRun[1].end > 0
    /\ Len(predictions) = 2
    /\ predictions[2].predicted_price # predictions[1].predicted_price

\* C13: createFeatureMatrix returns exactly min(60, length) rows for a series
\* of length >= 1, one row per bar of the trailing window in chronological
\* order; every row has exactly 13 columns and its first column is 1.
C13_FeatureMatrixShape ==
    (pc = "features" /\ Len(stockData) >= 1)
    => /\ Len(features) = (IF Len(stockData) < 60 THEN Len(stockData) ELSE 60)
       /\ \A i \in 1..Len(features) :
              /\ Len(features[i]) = 13
              /\ features[i][1] = SCALE
              /\ features[i][2] = stockData[Len(stockData) - Len(features) + i].close

C13_Witness ==
    /\ pc = "features"
    /\ Len(stockData) = 61
    /\ Len(features) = 60
    /\ features[1][2] = stockData[2].close
    /\ features[1][2] # features[60][2]

ConstantVolume == \A i \in 1..Len(stockData) : stockData[i].volume = 40000000

\* the distance of a double from 1, in units of 2^-53 (LIMB: further away)
UnitsFromOne(x) ==
    IF x.e = -52 /\ x.m.hi = HI_MIN THEN 2 * x.m.lo
    ELSE IF x.e = -53 /\ x.m.hi = HI_MAX - 1 THEN LIMB - x.m.lo
    ELSE LIMB

ConstantInput ==
    pc = "features64" /\ Len(stockData) = 60 /\ ConstantCloses /\ ConstantVolume

\* C15 as stated: for 60 bars of one constant close and constant volume
\* 40,000,000 every feature row has volatility 0, priceChange 0,
\* volatilitySquared 0, smaRatio 1 and volumeRatio 1.
C15_ConstantSeriesFeatures ==
    ConstantInput
    => \A i \in 1..Len(features) :
          /\ features[i][6] = 0 /\ rows64[i][6] = Zero64
          /\ features[i][7] = 0 /\ rows64[i][7] = Zero64
          /\ features[i][10] = 0 /\ rows64[i][10] = Zero64
          /\ rows64[i][9] = One64
          /\ rows64[i][8] = One64

\* C15, amended: for such a series every feature row has volatility 0,
\* priceChange 0, volatilitySquared 0 and volumeRatio exactly 1; smaRatio is
\* exactly 1 in the first five rows and whenever the close is a whole number
\* of dollars, and in every row it is within 2^-50 of 1.
C15_ConstantSeriesFeaturesUpToRounding ==
    ConstantInput
    => \A i \in 1..Len(features) :
          /\ features[i][6] = 0 /\ rows64[i][6] = Zero64
          /\ features[i][7] = 0 /\ rows64[i][7] = Zero64
          /\ features[i][10] = 0 /\ rows64[i][10] = Zero64
          /\ rows64[i][8] = One64
          /\ UnitsFromOne(rows64[i][9]) <= 8
          /\ (i <= 5 \/ stockData[1].close % SCALE = 0) => rows64[i][9] = One64

C15_Witness ==
    /\ ConstantInput
    /\ Len(features) = 60
    /\ Len(rows64) = 60
    /\ stockData[1].close % SCALE # 0
    /\ rows64[5][9] = One64
    /\ rows64[60][9] # One64
    /\ rows64[60][8] = One64
    /\ rows64[60][6] = Zero64

\* C14: in every generatePredictions call on a non-empty series the Lasso fit
\* has length(residuals) = length(targets) = number of feature rows
\* = min(60, series length), and as many coefficients as feature columns.
C14_FitLengthsAgree ==
    (pc \in {"loop", "done"} /\ Len(stockData) >= 1)
    => LET targets == Closes(SliceLast(stockData, WINDOW))
           rows == IF Len(stockData) < 60 THEN Len(stockData) ELSE 60
       IN  /\ Len(residuals) = rows
           /\ Len(targets) = rows
           /\ Len(features) = rows
           /\ Len(coefficients) = Len(features[1])

C14_Witness ==
    /\ pc = "done"
    /\ Len(stockData) = 61
    /\ Len(residuals) = 60
    /\ Len(features) = 60
    /\ Len(coefficients) = 13
    /\ stockData[61].close # stockData[1].close
    /\ Len(predictions) = 2

\* ensemble variances, in units of 1 / SCALE^2
VarianceSamples == {0, 1, 4, 25, 30 * 30, 500 * 500, 5000 * 5000, 40000 * 40000}

\* the width of the interval currentPrice -+ confidenceInterval
IntervalWidth(variance, dAhead) == 2 * ConfidenceInterval(variance, dAhead)

\* C16: for a fixed ensemble variance the confidence-interval width
\* 2 * 1.96 * sqrt(variance) * daysAhead^1.5 is non-decreasing in daysAhead:
\* the interval of a later prediction is never narrower than that of an
\* earlier one computed from the same variance.
C16_IntervalWidthNonDecreasing ==
    \A later \in 1..Len(predictions), earlier \in 1..Len(predictions) :
        earlier < later =>
            \A variance \in VarianceSamples :
                IntervalWidth(variance, earlier) <= IntervalWidth(variance, later)

C16_Witness ==
    /\ pc = "done"
    /\ Len(predictions) = 5
    /\ IntervalWidth(1, 4) < IntervalWidth(1, 5)
    /\ IntervalWidth(0, 4) = IntervalWidth(0, 5)
    /\ predictions[5].confidence_interval_upper - predictions[5].confidence_interval_lower
         > predictions[1].confidence_interval_upper - predictions[1].confidence_interval_lower

\* C17 as stated: for one feature matrix and target vector, a larger penalty
\* never gives a larger fit: whenever lambda1 <= lambda2 the sum of the
\* absolute non-intercept coefficients lassoRegression returns for lambda2
\* is at most the sum it returns for lambda1. lastRun holds the call with
\* lambda1, fit64 the call with lambda2.
C17_PenaltyShrinksCoefficients ==
    LET ShrinkageNorm(beta) ==
            AbsDiffSum64(beta, Arr([j \in 1..Len(beta) |-> Zero64]), 2)
    IN  (pc = "fit64" /\ Len(lastRun) = 1 /\ ~Lt64(fit64[1].lambda, lastRun[1].lambda))
        => ~Lt64(ShrinkageNorm(lastRun[1].coefficients),
                 ShrinkageNorm(fit64[1].coefficients))

\* the local calendar day of an instant
LocalDay(t) == (t + tz) \div 24

\* currentDate at the first test of the loop condition
LoopStart ==
    LET lastDate == ParseDate(stockData[Len(stockData)].date)
    IN  IF version = "orchestrator" THEN SetDatePlusOne(lastDate) ELSE lastDate

\* every turn of the loop, a weekend skip or an emitted prediction, moves
\* currentDate on by one day: the number of turns taken so far
Iterations == LocalDay(currentDate) - LocalDay(LoopStart)

WeekendSkips == Iterations - predictionCount

InLoop == pc \in {"loop", "done"} /\ Len(stockData) > 0

\* C18 as stated: the loop takes at most forecastDays * 7 / 5 turns.
C18_IterationsWithinSevenFifths ==
    InLoop => 5 * Iterations <= 7 * forecastDays

\* C18, amended: every turn of the loop moves currentDate on by one day, and
\* the turns taken (emitted predictions plus weekend skips) never exceed
\* forecastDays + 2 * ceil(forecastDays / 5): the loop ends after at most
\* that many turns, for every horizon and every weekday of the last bar.
C18_IterationsWithinWeekendBound ==
    /\ [](InLoop => /\ Iterations <= forecastDays + 2 * ((forecastDays + 4) \div 5)
                    /\ WeekendSkips >= 0
                    /\ predictionCount <= forecastDays)
    /\ [][(pc = "loop" /\ pc' = "loop") => Iterations' = Iterations + 1]_vars

C18_Witness ==
    /\ pc = "done"
    /\ forecastDays = 1
    /\ Len(predictions) = 1
    /\ WeekendSkips = 2
    /\ 5 * Iterations > 7 * forecastDays

\* the date the weekend test of the next turn looks at
TestedDate ==
    IF version = "orchestrator" THEN currentDate ELSE SetDatePlusOne(currentDate)

\* C19: a weekend-skip turn of the loop changes only the current date; it
\* leaves predictionCount, daysAhead, currentPrice and the emitted predictions
\* as they were. The k-th emitted prediction is the one computed with
\* daysAhead = k, whatever number of calendar days has gone by.
C19_WeekendSkipChangesOnlyDate ==
    [][ /\ (pc = "loop" /\ LoopCondition /\ IsWeekend(TestedDate))
           => /\ currentDate' = SetDatePlusOne(currentDate)
              /\ UNCHANGED <<predictionCount, daysAhead, currentPrice, predictions>>
        /\ (pc = "loop" /\ Len(predictions') = Len(predictions) + 1)
           => LET k == Len(predictions')
              IN  /\ daysAhead = k
                  /\ predictionCount' = k
                  /\ predictions'[k] = ForecastStep(TestedDate, k, currentPrice).prediction
      ]_vars

C19_Witness ==
    /\ pc = "done"
    /\ forecastDays = 5
    /\ Len(predictions) = 5
    /\ WeekendSkips = 2
    /\ Iterations = 7
    /\ daysAhead = 6

\* C20: for every series of at least 14 bars calculateRSI averages exactly 14
\* close-to-close changes, the last 14 of the series, each sum divided by 14;
\* older changes have no influence on the result.
C20_RSIOverLastFourteenChanges ==
    (pc = "rsi" /\ Len(stockData) >= 14)
    => /\ Len(SliceLast(Changes(stockData), RSI_PERIOD)) = 14
       /\ LET n == Len(stockData)
              change(k) == stockData[n - 14 + k].close - stockData[n - 15 + k].close
              gains == Arr([k \in 1..14 |-> IF change(k) > 0 THEN change(k) ELSE 0])
              losses == Arr([k \in 1..14 |-> IF change(k) < 0 THEN -change(k) ELSE 0])
          IN  rsiOut = RSIValue(RDiv(SumSeq(gains), 14), RDiv(SumSeq(losses), 14))

\* C21: one coordinate update sets the coefficient of the intercept column to
\* the correlation exactly, and the coefficient of every other column to the
\* soft-thresholded correlation with the threshold t = lambda / n:
\* correlation - t above t, correlation + t below -t, 0 in between; its
\* magnitude is max(0, |correlation| - t), it never has the opposite sign to
\* the correlation, and no other coefficient changes.
IsSoftThreshold(j, c, t, b) ==
    IF j = 1 THEN b = c
    ELSE /\ Lt64(t, c) => b = Sub64(c, t)
         /\ Lt64(c, Neg64(t)) => b = Add64(c, t)
         /\ (~Lt64(t, c) /\ ~Lt64(c, Neg64(t))) => b = Zero64
         /\ Abs64(b) = IF Lt64(t, Abs64(c)) THEN Sub64(Abs64(c), t) ELSE Zero64
         /\ b = Zero64 \/ (c # Zero64 /\ b.s = c.s)

C21_CoordinateUpdate ==
    [][ (pc = "sweep" /\ lasso[1].j <= Len(lasso[1].beta))
        => /\ IsSoftThreshold(lasso[1].j, lasso'[1].correlation,
                              Div64(lasso[1].lambda, FromInt(Len(lasso[1].XStd))),
                              lasso'[1].beta[lasso[1].j])
           /\ \A k \in 1..Len(lasso[1].beta) :
                  k # lasso[1].j => lasso'[1].beta[k] = lasso[1].beta[k]
      ]_vars

\* a sweep has ended with one coefficient above zero, one below and one zero
C21_Witness ==
    /\ pc = "sweep"
    /\ lasso[1].j > Len(lasso[1].beta)
    /\ \E k, l, m \in 2..Len(lasso[1].beta) :
            /\ lasso[1].beta[k] # Zero64 /\ lasso[1].beta[k].s = 1
            /\ lasso[1].beta[l].s = -1
            /\ lasso[1].beta[m] = Zero64

\* C22: the outer loop of lassoRegression runs at most 100 times; it ends at
\* the end of the first turn whose total absolute change of the coefficients
\* is below 1e-4, or else at the limit; the residuals are computed once,
\* after the loop, from the final coefficients.
C22_IterationLimitAndEarlyStop ==
    lasso # <<>>
    => /\ lasso[1].iter <= 100
       /\ pc = "sweep" => lasso[1].iter < 100
       /\ (pc = "loop" /\ lasso[1].iter >= 1)
          => ~Lt64(AbsDiffSum64(lasso[1].beta, lasso[1].oldBeta, 1), Dec64(1, 10000))
       /\ pc \in {"exit", "returned"}
          => \/ Lt64(AbsDiffSum64(lasso[1].beta, lasso[1].oldBeta, 1), Dec64(1, 10000))
             \/ lasso[1].iter = 100
       /\ pc # "returned" => fit64 = <<>>
       /\ pc = "returned"
          => /\ fit64[1].coefficients = lasso[1].beta
             /\ \A i \in 1..Len(lasso[1].y) :
                    fit64[1].residuals[i] =
                        Sub64(lasso[1].y[i],
                              Sum64(Arr([j \in 1..Len(lasso[1].beta) |->
                                           Mul64(lasso[1].XStd[i][j], lasso[1].beta[j])]),
                                    1, Len(lasso[1].beta), Zero64))

\* a call has returned after the loop ran to its limit
C22_Witness ==
    /\ pc = "returned"
    /\ lasso[1].iter = 100
    /\ ~Lt64(AbsDiffSum64(lasso[1].beta, lasso[1].oldBeta, 1), Dec64(1, 10000))

\* C23 as stated: a column j >= 1 of the feature matrix whose rows all hold
\* the same value is standardized to zeros, and its coefficient is 0
\* throughout the descent and in the result.
C23_DegenerateColumn ==
    lasso # <<>>
    => \A j \in 2..Len(rows64[1]) :
          (\A i \in 1..Len(rows64) : rows64[i][j] = rows64[1][j])
          => /\ \A i \in 1..Len(rows64) : lasso[1].XStd[i][j] = Zero64
             /\ lasso[1].beta[j] = Zero64
             /\ pc = "returned" => fit64[1].coefficients[j] = Zero64

\* C24: at every call generatePredictions makes, simulateRandomForestOnResiduals
\* returns exactly nEstimators values; each is the mean of n residuals picked
\* at indices in [0, n) plus a perturbation of at most 0.005 * sqrt(daysAhead)
\* in magnitude, so it lies between min(residuals) - 0.005 * sqrt(daysAhead)
\* and max(residuals) + 0.005 * sqrt(daysAhead).
C24_ForestWithinResidualRange ==
    (pc = "loop" /\ LoopCondition)
    => LET out == simulateRandomForestOnResiduals(residuals, features,
                                                  modelParams.n_estimators, daysAhead, rp + 1)
           n == Len(residuals)
           bound == FMul(5 * (SCALE \div 1000), FSqrt(daysAhead * SCALE))
       IN  /\ Len(out) = modelParams.n_estimators
           /\ \A t \in 1..Len(out) :
                  /\ \E idx \in [1..n -> 0..(n - 1)], u \in (-bound)..bound :
                         out[t] = RDiv(SumSeq(Arr([i \in 1..n |-> residuals[idx[i] + 1]])), n)
                                  + u
                  /\ \E i \in 1..n : residuals[i] - bound <= out[t]
                  /\ \E i \in 1..n : out[t] <= residuals[i] + bound

\* a forecast of two ensemble members over residuals that differ has emitted
\* two predictions
C24_Witness ==
    /\ pc = "done"
    /\ Len(predictions) >= 2
    /\ modelParams.n_estimators = 2
    /\ Len(residuals) = 2
    /\ residuals[1] # residuals[2]

\* C25: on the same bars, horizon, parameters, time zone and sequence of
\* random draws the two revisions of the forecast loop return the same
\* predictions (the same dates in the same order, the same prices and
\* intervals, which depend on daysAhead) and consume the same draws, and
\* their daysAhead counters end at the same value.
C25_RevisionsEquivalent ==
    (pc = "done" /\ Len(lastRun) = 1)
    => /\ predictions = lastRun[1].predictions
       /\ rp = lastRun[1].end
       /\ Len(predictions) > 0 => daysAhead = lastRun[1].daysAhead

\* both revisions have returned five predictions that span a weekend, from two
\* ensemble members each
C25_Witness ==
    /\ pc = "done"
    /\ Len(lastRun) = 1
    /\ modelParams.n_estimators = 2
    /\ Len(predictions) = 5
    /\ predictions[5].date > predictions[1].date + 4
    /\ predictions[1].predicted_price # predictions[2].predicted_price

\* C26 as stated: the trend label of every emitted prediction agrees with the
\* emitted, cent-rounded predicted_price: 'up' only above the last observed
\* close, 'down' only below it, 'neutral' whenever the two are equal.
C26_TrendAgreesWithEmittedPrice ==
    \A k \in 1..Len(predictions) :
        LET last == stockData[Len(stockData)].close
        IN  /\ predictions[k].trend = "up" => predictions[k].predicted_price > last
            /\ predictions[k].trend = "down" => predictions[k].predicted_price < last
            /\ predictions[k].predicted_price = last => predictions[k].trend = "neutral"

\* C27: every emitted prediction (n_estimators >= 1) has
\* confidence_interval_lower <= predicted_price <= confidence_interval_upper,
\* each of the three rounded to 2 decimals.
C27_IntervalContainsPrice ==
    \A k \in 1..Len(predictions) :
        modelParams.n_estimators >= 1
        => /\ predictions[k].confidence_interval_lower <= predictions[k].predicted_price
           /\ predictions[k].predicted_price <= predictions[k].confidence_interval_upper

\* a prediction has been emitted with the price strictly inside its interval
C27_Witness ==
    /\ pc = "done"
    /\ \E k \in 1..Len(predictions) :
            /\ predictions[k].confidence_interval_lower < predictions[k].predicted_price
            /\ predictions[k].predicted_price < predictions[k].confidence_interval_upper

\* C28: once every handleFetchStockData call in flight has completed, the data
\* shown (stockData, currentPrice) is that of the current stockSymbol, whatever
\* the order of the completions.
C28_LatestSymbolShown ==
    (ui.mounted /\ calls = <<>>) => ui.toastSymbol = <<ui.stockSymbol>>

\* C29: isLoading is true whenever at least one handleFetchStockData call is in
\* flight.
C29_LoadingWhileInFlight ==
    Len(calls) > 0 => ui.isLoading

\* a series as generateMockData builds it: MOCK_DAYS bars, the first dated
\* startDate and the last MOCK_DAYS - 1 days later
IsMockSeries(data) ==
    /\ Len(data) = MOCK_DAYS
    /\ data[1].date = ToISODate(MockStartDate)
    /\ data[MOCK_DAYS].date = ToISODate(MockStartDate + 24 * (MOCK_DAYS - 1))

\* a series as fetchStockData returns it
IsChartSeries(data) ==
    \E kind \in RawKinds : data = formatYahooFinanceData(RawResponse(kind))

\* C30: after any handleFetchStockData call completes, by a response or by a
\* throw, stockData is non-empty, currentPrice is the close of its last bar,
\* and dataSource is 'yahoo' exactly when the series came from fetchStockData
\* and 'mock' exactly when it came from generateMockData.
C30_CompletionLeavesData ==
    [][Len(calls') < Len(calls)
       => /\ Len(stockData') > 0
          /\ ui'.currentPrice = <<stockData'[Len(stockData')].close>>
          /\ ui'.dataSource \in {"yahoo", "mock"}
          /\ ui'.dataSource = "yahoo" <=> IsChartSeries(stockData')
          /\ ui'.dataSource = "mock" <=> IsMockSeries(stockData')]_vars

\* a fetch for the second symbol has failed and its mock series is shown
C30_Witness ==
    /\ ui.toastSymbol = <<"AAPL">>
    /\ ui.dataSource = "mock"
    /\ IsMockSeries(stockData)
    /\ ui.currentPrice = <<stockData[MOCK_DAYS].close>>

====
